---- MODULE Spec2Model ----
(***************************************************************************)
(* The workflow orchestrator of @posthog/agent: the progress reporter      *)
(* (task-progress-reporter.ts) with its token batching and its serialized  *)
(* write queue, and Agent.runTask (agent.ts) driving the workflow steps.   *)
(*                                                                         *)
(* One action is one turn of the JavaScript event loop: a call made by the *)
(* client, a timer callback or the completion of a network request,        *)
(* together with the promise continuations (microtasks) that it resolves.  *)
(***************************************************************************)
EXTENDS Integers, Sequences, FiniteSets, TLC

\* ------------------------------------------------------------ bounds
MaxEvents == 2
MaxLogCalls == 1
MaxFailures == 3
MaxRuns == 2
MaxDedupCalls == 3
MaxDedupEvents == 1
BurstTokens == 250

\* ------------------------------------------------- program constants
TOKEN_BATCH_SIZE == 100
LOG_APPEND_MAX_RETRIES == 3
LOG_APPEND_RETRY_BASE_DELAY_MS == 200

VARIABLES
    \* TaskProgressReporter fields
    hasApi,           \* this.posthogAPI is set
    startCalled,      \* start() has run
    taskRun,          \* this.taskRun: "none", or the status of the Run
    errorMessage,     \* error_message of the Run ("" when unset)
    lastLogEntry,     \* this.lastLogEntry ("" when unset)
    tokenBuffer,      \* this.tokenBuffer: the ids of the tokens whose content it holds
    tokenCount,       \* this.tokenCount
    tokenFlushTimer,  \* this.tokenFlushTimer is armed
    \* this.logWriteQueue: the chained promise, as the entries not yet settled
    queue,            \* pending entries, the head being written
    attempt,          \* writeLogEntry's loop counter for the head (0: nothing pending)
    backoff,          \* the head waits for its retry delay
    enq,              \* entries chained so far
    done,             \* entries settled so far
    \* the callers of complete(), fail() and appendLog()
    pc,               \* where each call stands
    target,           \* the entry whose settling a call awaits
    aLine,            \* the line given to appendLog
    nLogCalls,        \* appendLog calls made
    \* what is observed
    nRec,             \* recordEvent calls made: events are numbered 1..nRec
    nFail,            \* remote calls that failed
    maxIssued,        \* the latest event an appendTaskRunLog call has carried
    attempts,         \* attempts[k]: appendTaskRunLog calls made for entry k
    waited,           \* waited[k]: the retry delays (ms) entry k went through
    outcome,          \* outcome[k]: "pending", "written" or "dropped"
    flushes,          \* the token flushes: how many tokens, and what flushed them
    infoLog,          \* the info lines written to the Run's log
    updates,          \* the statuses updateTaskRun was called with
    completeAt,       \* nRec when complete() was called (-1 before)
    failAt,           \* nRec when fail() was called (-1 before)
    raised,           \* the reporter calls that rejected
    runLogLast,       \* the last entry written to the log of the Run: "event" or an info line
    \* Agent.runTask
    rtpc,             \* where runTask stands
    runNo,            \* runTask calls made
    isCloudMode,      \* options.isCloudMode ?? false
    createPR,         \* options.createPR: "unset", "yes" or "no"
    taskGiven,        \* taskOrId is a Task, not an id
    stepIdx,          \* the loop's position in TASK_WORKFLOW
    active,           \* step.run calls that have not resolved
    phaseLog,         \* the steps this runTask call started, in order
    halted,           \* a step result carried halt
    taskError,        \* taskError is set
    runCreated,       \* start() created a Run for this runTask call
    \* the task's artifacts on disk
    planExists,       \* .posthog/<taskId>/plan.md exists
    research,         \* research.json: "none", "open" (unanswered questions) or "answered"
    \* what is observed
    planAgent,        \* planAgent[r]: planning agent streams opened by runTask call r
    planEvents,       \* phase_complete events of planning emitted in this runTask call
    planWrittenBy,    \* the runTask calls that wrote plan.md
    runResult,        \* runResult[r]: how runTask call r ended, "" while it has not
    latestRunPrUrl,   \* task.latest_run.output.pr_url is set
    commitCreated,    \* stepResults['build'].commitCreated
    prStep,           \* what the change-request step of the run did, "none" before it
    \* planStep: one call
    planFile,         \* the content of .posthog/<task>/plan.md, NoFile when there is none
    researchFile,     \* what research.json holds
    planCloud,        \* context.isCloudMode
    ppc,              \* where the step stands
    pstream,          \* the messages the agent stream has yielded
    planContent,      \* the variable planContent
    pres,             \* the result of the step, "threw" when it threw
    pqueries,         \* calls of query(), which opens the agent stream
    pwritten,         \* the artifacts the step wrote
    pcommits,         \* commits the step made
    existingPlan,     \* the constant existingPlan: what readPlan answered
    plog,             \* the results of the calls that ended
    \* StageExecutor and the workflow that calls it
    wfStages,         \* the stages of the workflow
    wfIdx,            \* the stage the workflow is at
    wfLog,            \* what execute did for each stage it was called on
    wfpc,             \* where the workflow is
    \* PostHogFileManager: the file system under the repository
    fsDirs,           \* the directories that exist
    fsFiles,          \* the files that exist, with their content
    slog,             \* the operations called on the file manager
    sres,             \* what the last operation answered
    \* finalizeStep
    finApi,           \* context.posthogAPI is set
    finRunId,         \* progressReporter.runId is set
    artifacts,        \* the constant artifacts: what collectTaskArtifacts answered
    uploadedArtifacts, \* the artifacts uploadTaskArtifacts answered
    finRemoved,       \* the files cleanupTaskDirectory removed
    finCommits,       \* commits the step made
    finpc,            \* where the step is
    \* TodoManager
    todoInput,        \* the tool input last given to parseTodoWriteInput
    todoFile,         \* todos.json of the task, as the TodoList it holds
    todoRet,          \* what the last call returned
    todoCalls,        \* calls made, the clock of last_updated
    \* TaskManager: one execution and one waitForCompletion on it
    execStatus,       \* the status of the execution, "none" before startExecution
    execResult,       \* its result
    execAborted,      \* its abort signal is aborted
    execTimer,        \* the timeout of scheduleTimeout is pending
    execOps,          \* calls made on the TaskManager
    waitpc,           \* where waitForCompletion stands
    waitRes,          \* what it resolved with
    \* GitManager: the repository
    branches,         \* the branches that exist
    current,          \* the branch checked out
    dirty,            \* paths with changes that are not staged (untracked included)
    staged,           \* paths with staged changes
    \* GitManager: the operation under way
    gop,              \* the operation called, its arguments and the repository it found
    gpc,              \* where the operation stands
    glog,             \* the git commands it ran: where, which, with what outcome
    gres,             \* what the operation returned, "threw" when it threw
    gerr,             \* the command named by the error thrown, "" when none is
    gfails,           \* git commands that failed
    gevents,          \* branch_created events emitted
    \* GitManager: unique branch names
    uTaken,           \* k is in uTaken when the branch B-k exists (k = 0: B itself)
    uTaken0,          \* uTaken when the name was asked for
    uResult,          \* the k of the name chosen, -1 before
    uBy               \* the version of the code that chose it

\* TaskProgressReporter.
repVars == <<hasApi, startCalled, taskRun, errorMessage, lastLogEntry, tokenBuffer,
             tokenCount, tokenFlushTimer, queue, attempt, backoff, enq, maxIssued, attempts,
             waited, outcome, done, pc, target, aLine, nLogCalls, nRec, nFail, flushes,
             infoLog, updates, completeAt, failAt, raised, runLogLast>>

\* planStep, one call.
planVars == <<planFile, researchFile, planCloud, ppc, pstream, planContent, pres,
              pqueries, pwritten, pcommits, existingPlan, plog>>

stageVars == <<wfStages, wfIdx, wfLog, wfpc>>

storeVars == <<fsDirs, fsFiles, slog, sres>>
finVars == <<finApi, finRunId, artifacts, uploadedArtifacts, finRemoved, finCommits, finpc>>

todoVars == <<todoInput, todoFile, todoRet, todoCalls>>
execVars == <<execStatus, execResult, execAborted, execTimer, execOps, waitpc, waitRes>>

\* The state of the steps and stores that are modelled one call at a time.
extVars == <<planVars, stageVars, storeVars, finVars, todoVars, execVars>>

\* runTask's own state.
rtVars == <<rtpc, runNo, isCloudMode, createPR, taskGiven, stepIdx, active, phaseLog,
            halted, taskError, runCreated, planExists, research, planAgent, planEvents,
            planWrittenBy, runResult, latestRunPrUrl, commitCreated, prStep>>

\* GitManager and the repository it works on.
gitVars == <<branches, current, dirty, staged, gop, gpc, glog, gres, gerr, gfails, gevents,
             uTaken, uTaken0, uResult, uBy>>

vars == <<repVars, rtVars, extVars, gitVars>>

\* workflow/config.ts: the statically ordered phase list (research, plan, build,
\* finalize)
TASK_WORKFLOW == <<"research", "plan", "build", "finalize">>

Procs == {"complete", "fail", "appendLog"}

Range(s) == {s[i] : i \in 1..Len(s)}

Max(a, b) == IF a >= b THEN a ELSE b

\* The last event of an entry: the events of an entry are in recording order.
LastEv(evs) == evs[Len(evs)]

RECURSIVE Pow2(_)
Pow2(n) == IF n <= 0 THEN 1 ELSE 2 * Pow2(n - 1)

\* !this.posthogAPI || !this.runId || !this.taskId, negated
\* The guard without its check of runId.
Active_ApiOnly == hasApi

Active == hasApi /\ taskRun # "none"

\* ------------------------------------------------------ write queue

\* appendLogEntry: chain the entry; on an idle queue its write starts at once.
appendLogEntry(evs, clr) ==
    IF ~Active
    THEN UNCHANGED <<queue, attempt, backoff, enq, maxIssued, attempts, waited, outcome>>
    ELSE /\ queue' = Append(queue, [idx |-> enq + 1, evs |-> evs, clear |-> clr])
         /\ enq' = enq + 1
         /\ outcome' = Append(outcome, "pending")
         /\ waited' = Append(waited, <<>>)
         /\ IF queue = <<>>
            THEN /\ attempt' = 1
                 /\ backoff' = FALSE
                 /\ attempts' = Append(attempts, 1)
                 /\ maxIssued' = Max(maxIssued, LastEv(evs))
            ELSE /\ attempts' = Append(attempts, 0)
                 /\ UNCHANGED <<attempt, backoff, maxIssued>>

\* flushTokens leaving the buffer as it is: the tokens flushed stay buffered.
flushTokens_KeepBuffer(buf, cnt, by, clr) ==
    IF buf = <<>> \/ cnt = 0
    THEN /\ tokenBuffer' = buf
         /\ tokenCount' = cnt
         /\ UNCHANGED <<queue, attempt, backoff, enq, maxIssued, attempts, waited, outcome,
                        flushes>>
    ELSE /\ tokenBuffer' = buf
         /\ tokenCount' = 0
         /\ flushes' = Append(flushes, [n |-> Len(buf), by |-> by])
         /\ appendLogEntry(buf, clr)

\* flushTokens on a buffer and a count; by: who flushes; clr: whether the caller
\* clears the timer once the flush has settled.
flushTokens(buf, cnt, by, clr) ==
    IF buf = <<>> \/ cnt = 0
    THEN /\ tokenBuffer' = buf
         /\ tokenCount' = cnt
         /\ UNCHANGED <<queue, attempt, backoff, enq, maxIssued, attempts, waited, outcome,
                        flushes>>
    ELSE /\ tokenBuffer' = <<>>
         /\ tokenCount' = 0
         /\ flushes' = Append(flushes, [n |-> Len(buf), by |-> by])
         /\ appendLogEntry(buf, clr)

\* SettleHead without the catch that un-rejects the chain: a dropped entry leaves
\* the entries behind it unwritten.
SettleHead_Blocking(res) ==
    LET h == Head(queue)
        rest == Tail(queue)
    IN  /\ queue' = rest
        /\ done' = done + 1
        /\ backoff' = FALSE
        /\ outcome' = [outcome EXCEPT ![h.idx] = res]
        /\ tokenFlushTimer' = IF h.clear THEN FALSE ELSE tokenFlushTimer
        /\ IF rest = <<>> \/ res = "dropped"
           THEN /\ attempt' = 0
                /\ UNCHANGED <<attempts, maxIssued>>
           ELSE /\ attempt' = 1
                /\ attempts' = [attempts EXCEPT ![Head(rest).idx] = 1]
                /\ maxIssued' = Max(maxIssued, LastEv(Head(rest).evs))
        /\ UNCHANGED <<enq, waited>>

\* The head's writeLogEntry returned with `res`: the chain moves on to the next
\* entry, and a recordEvent that awaited this flush clears the timer.
SettleHead(res) ==
    LET h == Head(queue)
        rest == Tail(queue)
    IN  /\ queue' = rest
        /\ done' = done + 1
        /\ backoff' = FALSE
        /\ outcome' = [outcome EXCEPT ![h.idx] = res]
        /\ tokenFlushTimer' = IF h.clear THEN FALSE ELSE tokenFlushTimer
        /\ IF rest = <<>>
           THEN /\ attempt' = 0
                /\ UNCHANGED <<attempts, maxIssued>>
           ELSE /\ attempt' = 1
                /\ attempts' = [attempts EXCEPT ![Head(rest).idx] = 1]
                /\ maxIssued' = Max(maxIssued, LastEv(Head(rest).evs))
        /\ UNCHANGED <<enq, waited>>

\* appendTaskRunLog of the head succeeded: writeLogEntry returns.
WriteOk ==
    /\ UNCHANGED <<rtVars, extVars, gitVars, failAt, raised>>
    /\ runLogLast' = "event"
    /\ queue # <<>>
    /\ ~backoff
    /\ SettleHead("written")
    /\ UNCHANGED <<hasApi, startCalled, taskRun, errorMessage, lastLogEntry, tokenBuffer,
                   tokenCount, pc, target, aLine, nLogCalls, nRec, nFail, flushes, infoLog,
                   updates, completeAt>>

\* AfterFailure with the loop running one attempt too long.
AfterFailure_OneMore ==
    IF attempt = LOG_APPEND_MAX_RETRIES + 1
    THEN SettleHead("dropped")
    ELSE /\ backoff' = TRUE
         /\ waited' = [waited EXCEPT ![Head(queue).idx] =
                Append(@, LOG_APPEND_RETRY_BASE_DELAY_MS * Pow2(attempt - 1))]
         /\ UNCHANGED <<queue, done, attempt, enq, maxIssued, attempts, outcome,
                        tokenFlushTimer>>

\* writeLogEntry's catch block: give up after the last attempt, else wait.
AfterFailure ==
    IF attempt = LOG_APPEND_MAX_RETRIES
    THEN SettleHead("dropped")
    ELSE /\ backoff' = TRUE
         /\ waited' = [waited EXCEPT ![Head(queue).idx] =
                Append(@, LOG_APPEND_RETRY_BASE_DELAY_MS * Pow2(attempt - 1))]
         /\ UNCHANGED <<queue, done, attempt, enq, maxIssued, attempts, outcome,
                        tokenFlushTimer>>

\* appendTaskRunLog of the head failed.
WriteFail ==
    /\ UNCHANGED <<rtVars, extVars, gitVars, failAt, raised, runLogLast>>
    /\ queue # <<>>
    /\ ~backoff
    /\ nFail < MaxFailures
    /\ nFail' = nFail + 1
    /\ AfterFailure
    /\ UNCHANGED <<hasApi, startCalled, taskRun, errorMessage, lastLogEntry, tokenBuffer,
                   tokenCount, pc, target, aLine, nLogCalls, nRec, flushes, infoLog,
                   updates, completeAt>>

\* The retry delay elapsed: the loop's next attempt.
RetryDelayElapsed ==
    /\ UNCHANGED <<rtVars, extVars, gitVars, failAt, raised, runLogLast>>
    /\ queue # <<>>
    /\ backoff
    /\ backoff' = FALSE
    /\ attempt' = attempt + 1
    /\ attempts' = [attempts EXCEPT ![Head(queue).idx] = @ + 1]
    /\ UNCHANGED <<queue, enq, maxIssued, waited, outcome>>
    /\ UNCHANGED <<hasApi, startCalled, taskRun, errorMessage, lastLogEntry, tokenBuffer,
                   tokenCount, tokenFlushTimer, done, pc, target, aLine, nLogCalls, nRec,
                   nFail, flushes, infoLog, updates, completeAt>>

\* ------------------------------------------------------------ start

Start(ok) ==
    /\ UNCHANGED <<rtVars, extVars, gitVars, failAt, raised, runLogLast>>
    /\ ~startCalled
    /\ startCalled' = TRUE
    /\ taskRun' = IF hasApi /\ ok THEN "started" ELSE taskRun
    /\ UNCHANGED <<hasApi, errorMessage, lastLogEntry, tokenBuffer, tokenCount,
                   tokenFlushTimer, queue, attempt, backoff, enq, maxIssued, attempts,
                   waited, outcome, done, pc, target, aLine, nLogCalls, nRec, nFail,
                   flushes, infoLog, updates, completeAt>>

\* ------------------------------------------------------ recordEvent

RecordEvent(kind, limit) ==
    /\ UNCHANGED <<rtVars, extVars, gitVars, failAt, raised, runLogLast>>
    /\ nRec < limit
    /\ nRec' = nRec + 1
    /\ UNCHANGED <<nFail, hasApi, startCalled, taskRun, errorMessage, lastLogEntry, done,
                   pc, target, aLine, nLogCalls, infoLog, updates, completeAt>>
    /\ IF ~Active \/ kind = "raw_sdk_event"
       THEN UNCHANGED <<tokenBuffer, tokenCount, tokenFlushTimer, queue, attempt, backoff,
                        enq, maxIssued, attempts, waited, outcome, flushes>>
       ELSE IF kind \in {"token", "emptyToken"}
       THEN LET buf == IF kind = "token" THEN Append(tokenBuffer, nRec + 1)
                       ELSE tokenBuffer
                cnt == tokenCount + 1
            IN  IF cnt >= TOKEN_BATCH_SIZE
                THEN /\ flushTokens(buf, cnt, "batch", TRUE)
                     /\ tokenFlushTimer' =
                            IF buf = <<>> THEN FALSE ELSE tokenFlushTimer
                ELSE /\ tokenBuffer' = buf
                     /\ tokenCount' = cnt
                     /\ tokenFlushTimer' = TRUE
                     /\ UNCHANGED <<queue, attempt, backoff, enq, maxIssued, attempts,
                                    waited, outcome, flushes>>
       ELSE /\ appendLogEntry(<<nRec + 1>>, FALSE)
            /\ UNCHANGED <<tokenBuffer, tokenCount, tokenFlushTimer, flushes>>

\* The flush timer fires.
TimerFire ==
    /\ UNCHANGED <<rtVars, extVars, gitVars, failAt, raised, runLogLast>>
    /\ tokenFlushTimer
    /\ tokenFlushTimer' = FALSE
    /\ flushTokens(tokenBuffer, tokenCount, "timer", FALSE)
    /\ UNCHANGED <<hasApi, startCalled, taskRun, errorMessage, lastLogEntry, done, pc,
                   target, aLine, nLogCalls, nRec, nFail, infoLog, updates, completeAt>>

\* ------------------------------------- update, complete, fail, appendLog

LineOf(p) ==
    CASE p = "complete" -> "Task execution completed"
      [] p = "fail" -> "Task execution failed: err"
      [] OTHER -> aLine

StatusOf(p) ==
    CASE p = "complete" -> "completed"
      [] p = "fail" -> "failed"
      [] OTHER -> ""

\* update without the comparison with lastLogEntry.
UpdateBegin_NoDedup(p, line) ==
    IF ~Active
    THEN /\ pc' = [pc EXCEPT ![p] = "done"]
         /\ UNCHANGED updates
    ELSE /\ pc' = [pc EXCEPT ![p] = "appendWait"]
         /\ UNCHANGED updates

\* update(update, logLine) up to its first await, the line being `line`.
UpdateBegin(p, line) ==
    IF ~Active
    THEN /\ pc' = [pc EXCEPT ![p] = "done"]
         /\ UNCHANGED updates
    ELSE IF line # lastLogEntry
    THEN /\ pc' = [pc EXCEPT ![p] = "appendWait"]
         /\ UNCHANGED updates
    ELSE IF StatusOf(p) # ""
    THEN /\ pc' = [pc EXCEPT ![p] = "updateWait"]
         /\ updates' = updates \cup {StatusOf(p)}
    ELSE /\ pc' = [pc EXCEPT ![p] = "done"]
         /\ UNCHANGED updates

\* complete() without its flushTokens call.
CompleteCall_NoFlush ==
    /\ UNCHANGED <<rtVars, extVars, gitVars, failAt, raised, runLogLast>>
    /\ pc["complete"] = "idle"
    /\ pc["fail"] = "idle"
    /\ completeAt' = nRec
    /\ pc' = [pc EXCEPT !["complete"] = "flushWait"]
    /\ target' = [target EXCEPT !["complete"] = 0]
    /\ UNCHANGED <<hasApi, startCalled, taskRun, errorMessage, lastLogEntry, tokenBuffer,
                   tokenCount, queue, attempt, backoff, enq, maxIssued, attempts, waited,
                   outcome, flushes, tokenFlushTimer, done, aLine, nLogCalls, nRec, nFail,
                   infoLog, updates>>

\* complete() up to its first await: flushTokens.
CompleteCall ==
    /\ UNCHANGED <<rtVars, extVars, gitVars, failAt, raised, runLogLast>>
    /\ pc["complete"] = "idle"
    /\ pc["fail"] = "idle"
    /\ completeAt' = nRec
    /\ flushTokens(tokenBuffer, tokenCount, "complete", FALSE)
    /\ pc' = [pc EXCEPT !["complete"] = "flushWait"]
    /\ target' = [target EXCEPT !["complete"] =
            IF tokenBuffer = <<>> \/ tokenCount = 0 \/ ~Active THEN 0 ELSE enq + 1]
    /\ UNCHANGED <<hasApi, startCalled, taskRun, errorMessage, lastLogEntry,
                   tokenFlushTimer, done, aLine, nLogCalls, nRec, nFail, infoLog, updates>>

\* complete() after the flush settled: await this.logWriteQueue.
CompleteFlushed ==
    /\ UNCHANGED <<rtVars, extVars, gitVars, failAt, raised, runLogLast>>
    /\ pc["complete"] = "flushWait"
    /\ done >= target["complete"]
    /\ pc' = [pc EXCEPT !["complete"] = "queueWait"]
    /\ target' = [target EXCEPT !["complete"] = enq]
    /\ UNCHANGED <<hasApi, startCalled, taskRun, errorMessage, lastLogEntry, tokenBuffer,
                   tokenCount, tokenFlushTimer, queue, attempt, backoff, enq, maxIssued,
                   attempts, waited, outcome, done, aLine, nLogCalls, nRec, nFail, flushes,
                   infoLog, updates, completeAt>>

\* fail() up to its first await: await this.logWriteQueue.
FailCall ==
    /\ UNCHANGED <<rtVars, extVars, gitVars, raised, runLogLast>>
    /\ failAt' = nRec
    /\ pc["fail"] = "idle"
    /\ pc["complete"] = "idle"
    /\ pc' = [pc EXCEPT !["fail"] = "queueWait"]
    /\ target' = [target EXCEPT !["fail"] = enq]
    /\ UNCHANGED <<hasApi, startCalled, taskRun, errorMessage, lastLogEntry, tokenBuffer,
                   tokenCount, tokenFlushTimer, queue, attempt, backoff, enq, maxIssued,
                   attempts, waited, outcome, done, aLine, nLogCalls, nRec, nFail, flushes,
                   infoLog, updates, completeAt>>

\* The awaited queue settled: complete() clears the timer; both call update.
Drained(p) ==
    /\ UNCHANGED <<rtVars, extVars, gitVars, failAt, raised, runLogLast>>
    /\ p \in {"complete", "fail"}
    /\ pc[p] = "queueWait"
    /\ done >= target[p]
    /\ tokenFlushTimer' = IF p = "complete" THEN FALSE ELSE tokenFlushTimer
    /\ UpdateBegin(p, LineOf(p))
    /\ UNCHANGED <<hasApi, startCalled, taskRun, errorMessage, lastLogEntry, tokenBuffer,
                   tokenCount, queue, attempt, backoff, enq, maxIssued, attempts, waited,
                   outcome, done, target, aLine, nLogCalls, nRec, nFail, flushes, infoLog,
                   completeAt>>

\* appendLog(line): update({}, line).
AppendLogUpTo(line, limit) ==
    /\ UNCHANGED <<rtVars, extVars, gitVars, failAt, raised, runLogLast>>
    /\ pc["appendLog"] \in {"idle", "done"}
    /\ nLogCalls < limit
    /\ nLogCalls' = nLogCalls + 1
    /\ aLine' = line
    /\ UpdateBegin("appendLog", line)
    /\ UNCHANGED <<hasApi, startCalled, taskRun, errorMessage, lastLogEntry, tokenBuffer,
                   tokenCount, tokenFlushTimer, queue, attempt, backoff, enq, maxIssued,
                   attempts, waited, outcome, done, target, nRec, nFail, flushes, infoLog,
                   completeAt>>

AppendLogCall(line) == AppendLogUpTo(line, MaxLogCalls)

\* The appendTaskRunLog that update issued came back; update goes on.
DirectAppendDone(p, ok) ==
    /\ UNCHANGED <<rtVars, extVars, gitVars, failAt, raised>>
    /\ runLogLast' = IF ok THEN LineOf(p) ELSE runLogLast
    /\ pc[p] = "appendWait"
    /\ ok \/ nFail < MaxFailures
    /\ nFail' = IF ok THEN nFail ELSE nFail + 1
    /\ lastLogEntry' = IF ok THEN LineOf(p) ELSE lastLogEntry
    /\ infoLog' = IF ok THEN Append(infoLog, LineOf(p)) ELSE infoLog
    /\ IF StatusOf(p) # ""
       THEN /\ pc' = [pc EXCEPT ![p] = "updateWait"]
            /\ updates' = updates \cup {StatusOf(p)}
       ELSE /\ pc' = [pc EXCEPT ![p] = "done"]
            /\ UNCHANGED updates
    /\ UNCHANGED <<hasApi, startCalled, taskRun, errorMessage, tokenBuffer, tokenCount,
                   tokenFlushTimer, queue, attempt, backoff, enq, maxIssued, attempts,
                   waited, outcome, done, target, aLine, nLogCalls, nRec, flushes,
                   completeAt>>

\* UpdateDone without the try/catch around updateTaskRun: its failure rejects the
\* promise of update, and with it that of complete() or fail().
UpdateDone_NoCatch(p, ok) ==
    /\ UNCHANGED <<rtVars, extVars, gitVars, failAt, runLogLast>>
    /\ pc[p] = "updateWait"
    /\ ok \/ nFail < MaxFailures
    /\ nFail' = IF ok THEN nFail ELSE nFail + 1
    /\ pc' = [pc EXCEPT ![p] = "done"]
    /\ raised' = IF ok THEN raised ELSE raised \cup {p}
    /\ taskRun' = IF ok THEN StatusOf(p) ELSE taskRun
    /\ errorMessage' = IF ok /\ p = "fail" THEN "err" ELSE errorMessage
    /\ UNCHANGED <<hasApi, startCalled, lastLogEntry, tokenBuffer, tokenCount,
                   tokenFlushTimer, queue, attempt, backoff, enq, maxIssued, attempts,
                   waited, outcome, done, target, aLine, nLogCalls, nRec, flushes, infoLog,
                   updates, completeAt>>

\* The updateTaskRun that update issued came back.
UpdateDone(p, ok) ==
    /\ UNCHANGED <<rtVars, extVars, gitVars, failAt, raised, runLogLast>>
    /\ pc[p] = "updateWait"
    /\ ok \/ nFail < MaxFailures
    /\ nFail' = IF ok THEN nFail ELSE nFail + 1
    /\ pc' = [pc EXCEPT ![p] = "done"]
    /\ taskRun' = IF ok THEN StatusOf(p) ELSE taskRun
    /\ errorMessage' = IF ok /\ p = "fail" THEN "err" ELSE errorMessage
    /\ UNCHANGED <<hasApi, startCalled, lastLogEntry, tokenBuffer, tokenCount,
                   tokenFlushTimer, queue, attempt, backoff, enq, maxIssued, attempts,
                   waited, outcome, done, target, aLine, nLogCalls, nRec, flushes, infoLog,
                   updates, completeAt>>

\* ------------------------------------------------- the reporter alone

InitReporter ==
    /\ hasApi \in BOOLEAN
    /\ startCalled = FALSE
    /\ taskRun = "none"
    /\ errorMessage = ""
    /\ lastLogEntry = ""
    /\ tokenBuffer = <<>>
    /\ tokenCount = 0
    /\ tokenFlushTimer = FALSE
    /\ queue = <<>>
    /\ attempt = 0
    /\ backoff = FALSE
    /\ enq = 0
    /\ done = 0
    /\ pc = [p \in Procs |-> "idle"]
    /\ target = [p \in Procs |-> 0]
    /\ aLine = ""
    /\ nLogCalls = 0
    /\ nRec = 0
    /\ nFail = 0
    /\ maxIssued = 0
    /\ attempts = <<>>
    /\ waited = <<>>
    /\ outcome = <<>>
    /\ flushes = <<>>
    /\ infoLog = <<>>
    /\ updates = {}
    /\ completeAt = -1
    /\ runLogLast = ""
    /\ raised = {}
    /\ failAt = -1

\* A git command: the text given to runGitCommand, the branch it names apart.
Cmd(verb, arg) == [verb |-> verb, arg |-> arg]

\* No branch: the null of getTaskBranch, the empty argument of a command.
NoBranch == <<>>

\* No operation was called.
IdleOp ==
    [name |-> "", cloud |-> FALSE, allowEmpty |-> FALSE, external |-> FALSE,
     push |-> FALSE, cur |-> NoBranch, def |-> NoBranch, existing |-> NoBranch,
     branches0 |-> {}, current0 |-> NoBranch, dirty0 |-> {}, staged0 |-> {}]

\* No GitManager operation has been called and no unique branch name asked for,
\* on a repository with its default branch alone and a clean working tree. The
\* part named is left to the specification of that part: the repository ("git"),
\* the branches that exist ("unique").
InitGitIdle(part) ==
    /\ IF part = "git" THEN TRUE
       ELSE /\ branches = {<<"main">>}
            /\ current = <<"main">>
            /\ dirty = {}
            /\ staged = {}
    /\ gop = IdleOp
    /\ gpc = "idle"
    /\ glog = <<>>
    /\ gres = ""
    /\ gerr = Cmd("", NoBranch)
    /\ gfails = 0
    /\ gevents = 0
    /\ IF part = "unique" THEN TRUE ELSE uTaken = {}
    /\ uTaken0 = {}
    /\ uResult = -1
    /\ uBy = ""

\* No runTask call is under way.
InitRunTaskIdle ==
    /\ rtpc = "idle"
    /\ runNo = 0
    /\ isCloudMode = FALSE
    /\ createPR = "unset"
    /\ taskGiven = TRUE
    /\ stepIdx = 0
    /\ active = 0
    /\ phaseLog = <<>>
    /\ halted = FALSE
    /\ taskError = FALSE
    /\ runCreated = FALSE
    /\ planExists = FALSE
    /\ research = "none"
    /\ planAgent = [r \in 1..MaxRuns |-> 0]
    /\ planEvents = 0
    /\ planWrittenBy = {}
    /\ runResult = [r \in 1..MaxRuns |-> ""]
    /\ latestRunPrUrl = FALSE
    /\ commitCreated = FALSE
    /\ prStep = "none"

\* No file: what readTaskFile answers with null.
NoFile == "absent"

\* null, where the value that is not null is a record.
Null == [null |-> TRUE]

\* The steps and stores that are modelled one call at a time have not been
\* called, nothing is on disk; the state of the part named is left to be chosen.
InitExtIdle(part) ==
    /\ IF part = "plan" THEN TRUE
       ELSE /\ planFile = NoFile
            /\ researchFile = "absent"
            /\ planCloud = FALSE
            /\ ppc = "idle"
    /\ pstream = <<>>
    /\ planContent = <<>>
    /\ pres = [status |-> "", halt |-> FALSE, error |-> ""]
    /\ pqueries = 0
    /\ pwritten = {}
    /\ pcommits = 0
    /\ existingPlan = NoFile
    /\ plog = <<>>
    /\ IF part = "stage" THEN TRUE
       ELSE /\ wfStages = <<>>
            /\ wfIdx = 0
            /\ wfpc = "idle"
    /\ wfLog = <<>>
    /\ IF part = "finalize" THEN TRUE
       ELSE /\ fsDirs = {}
            /\ fsFiles = {}
            /\ finApi = FALSE
            /\ finRunId = FALSE
            /\ finpc = "idle"
    /\ slog = <<>>
    /\ sres = [op |-> "", threw |-> FALSE, content |-> "", names |-> {}]
    /\ artifacts = {}
    /\ uploadedArtifacts = {}
    /\ finRemoved = {}
    /\ finCommits = 0
    /\ todoInput = Null
    /\ todoFile = Null
    /\ todoRet = Null
    /\ todoCalls = 0
    /\ execStatus = "none"
    /\ execResult = "undefined"
    /\ execAborted = FALSE
    /\ execTimer = FALSE
    /\ execOps = 0
    /\ waitpc = "idle"
    /\ waitRes = "undefined"

Init == InitReporter /\ InitRunTaskIdle /\ InitGitIdle("") /\ InitExtIdle("")

Next ==
    \/ \E ok \in BOOLEAN : Start(ok)
    \/ \E k \in {"token", "emptyToken", "status", "raw_sdk_event"} : RecordEvent(k, MaxEvents)
    \/ TimerFire
    \/ WriteOk
    \/ WriteFail
    \/ RetryDelayElapsed
    \/ CompleteCall
    \/ CompleteFlushed
    \/ FailCall
    \/ \E p \in Procs : Drained(p)
    \/ \E l \in {"a"} : AppendLogCall(l)
    \/ \E p \in Procs, ok \in BOOLEAN : DirectAppendDone(p, ok)
    \/ \E p \in Procs, ok \in BOOLEAN : UpdateDone(p, ok)

Spec == Init /\ [][Next]_vars

\* ------------------------------------------- a burst of token events

\* recordEvent of a token, on a reporter that was started.
BurstToken ==
    /\ startCalled
    /\ RecordEvent("token", BurstTokens)

\* The tokens of the burst are all recorded within one flush interval of the first:
\* a timer armed during the burst expires after the last token was recorded.
BurstTimerFire ==
    /\ nRec = BurstTokens
    /\ TimerFire

SpecBurst ==
    Init /\ [][\/ \E ok \in BOOLEAN : Start(ok)
               \/ BurstToken
               \/ BurstTimerFire
               \/ WriteOk
               \/ WriteFail
               \/ RetryDelayElapsed]_vars

\* ------------------------------- a stream of tokens, then complete()

\* The tokens arrive in groups of TimerStride, each within one flush interval.
TimerStride == 25

\* recordEvent of a token, before complete() is called.
StreamToken ==
    /\ pc["complete"] = "idle"
    /\ BurstToken

\* The flush timer expires between two groups, or after the last token.
StreamTimerFire ==
    /\ nRec % TimerStride = 0 \/ nRec = BurstTokens
    /\ TimerFire

\* Every remote append succeeds.
SpecTokens ==
    Init /\ [][\/ \E ok \in BOOLEAN : Start(ok)
               \/ StreamToken
               \/ StreamTimerFire
               \/ WriteOk
               \/ CompleteCall
               \/ CompleteFlushed
               \/ Drained("complete")
               \/ DirectAppendDone("complete", TRUE)
               \/ UpdateDone("complete", TRUE)]_vars

\* ------------------------------------- informational lines, in sequence

\* appendLog(l), called when no complete() is under way; the last of the lines is
\* the line complete() logs.
LogLine ==
    /\ pc["complete"] \in {"idle", "done"}
    /\ \E l \in {"a", "b", "Task execution completed"} : AppendLogUpTo(l, MaxDedupCalls)

\* A status event is recorded: its entry goes to the log of the Run.
LogEvent == RecordEvent("status", MaxDedupEvents)

\* complete(), called when no appendLog is under way.
LogComplete ==
    /\ pc["appendLog"] \in {"idle", "done"}
    /\ CompleteCall

SpecLog ==
    Init /\ [][\/ \E ok \in BOOLEAN : Start(ok)
               \/ LogLine
               \/ LogEvent
               \/ WriteOk
               \/ WriteFail
               \/ RetryDelayElapsed
               \/ LogComplete
               \/ CompleteFlushed
               \/ \E p \in Procs : Drained(p)
               \/ \E p \in Procs, ok \in BOOLEAN : DirectAppendDone(p, ok)
               \/ \E p \in Procs, ok \in BOOLEAN : UpdateDone(p, ok)]_vars

\* ------------------------------------------------- Agent.runTask

\* The options of the runTask calls and the artifacts found on disk are any.
InitRun ==
    /\ InitReporter
    /\ rtpc = "idle"
    /\ runNo = 0
    /\ isCloudMode \in BOOLEAN
    /\ createPR \in {"unset", "yes", "no"}
    /\ taskGiven \in BOOLEAN
    /\ stepIdx = 0
    /\ active = 0
    /\ phaseLog = <<>>
    /\ halted = FALSE
    /\ taskError = FALSE
    /\ runCreated = FALSE
    /\ planExists \in BOOLEAN
    /\ research \in {"none", "open", "answered"}
    /\ planAgent = [r \in 1..MaxRuns |-> 0]
    /\ planEvents = 0
    /\ planWrittenBy = {}
    /\ runResult = [r \in 1..MaxRuns |-> ""]
    /\ latestRunPrUrl = FALSE
    /\ commitCreated = FALSE
    /\ prStep = "none"
    /\ InitGitIdle("")
    /\ InitExtIdle("")

\* A process constructs an Agent (new Agent(config): a reporter with no Run, an
\* empty queue and no timer) and calls runTask; the previous call, if any, has
\* returned or thrown.
RunTaskCall ==
    /\ rtpc \in {"idle", "returned", "threw"}
    /\ runNo < MaxRuns
    /\ startCalled' = FALSE
    /\ taskRun' = "none"
    /\ errorMessage' = ""
    /\ lastLogEntry' = ""
    /\ tokenBuffer' = <<>>
    /\ tokenCount' = 0
    /\ tokenFlushTimer' = FALSE
    /\ queue' = <<>>
    /\ attempt' = 0
    /\ backoff' = FALSE
    /\ enq' = 0
    /\ done' = 0
    /\ pc' = [p \in Procs |-> "idle"]
    /\ target' = [p \in Procs |-> 0]
    /\ aLine' = ""
    /\ maxIssued' = 0
    /\ attempts' = <<>>
    /\ waited' = <<>>
    /\ outcome' = <<>>
    /\ flushes' = <<>>
    /\ infoLog' = <<>>
    /\ updates' = {}
    /\ completeAt' = -1
    /\ runLogLast' = ""
    /\ raised' = {}
    /\ failAt' = -1
    /\ UNCHANGED <<hasApi, nLogCalls, nRec, nFail>>
    /\ runNo' = runNo + 1
    /\ rtpc' = "resolve"
    /\ stepIdx' = 0
    /\ active' = 0
    /\ phaseLog' = <<>>
    /\ halted' = FALSE
    /\ taskError' = FALSE
    /\ runCreated' = FALSE
    /\ latestRunPrUrl' \in BOOLEAN
    /\ commitCreated' = FALSE
    /\ prStep' = "none"
    /\ planEvents' = 0
    /\ UNCHANGED <<gitVars, extVars, isCloudMode, createPR, taskGiven, planExists, research,
                   planAgent, planWrittenBy, runResult>>

\* _configureLlmGateway and the resolution of taskOrId: fetchTask throws without an
\* API client, and the fetch itself may fail. Nothing catches here.
RT_Resolve(ok) ==
    /\ rtpc = "resolve"
    /\ IF ok /\ (taskGiven \/ hasApi)
       THEN rtpc' = "start" /\ UNCHANGED runResult
       ELSE rtpc' = "threw" /\ runResult' = [runResult EXCEPT ![runNo] = "threw"]
    /\ UNCHANGED <<repVars, gitVars, latestRunPrUrl, commitCreated, prStep, extVars, runNo,
                   isCloudMode, createPR, taskGiven, stepIdx, active, phaseLog, halted,
                   taskError, runCreated, planExists, research, planAgent, planEvents,
                   planWrittenBy>>

\* await this.progressReporter.start(task.id, ...)
RT_Start(ok) ==
    /\ rtpc = "start"
    /\ Start(ok)

\* start() resolved: emit run_started and go on to prepareTaskBranch.
RT_Started ==
    /\ rtpc = "start"
    /\ startCalled
    /\ rtpc' = "prepare"
    /\ runCreated' = Active
    /\ UNCHANGED <<repVars, gitVars, latestRunPrUrl, commitCreated, prStep, extVars, runNo,
                   isCloudMode, createPR, taskGiven, stepIdx, active, phaseLog, halted,
                   taskError, planExists, research, planAgent, planEvents, planWrittenBy,
                   runResult>>

\* await this.prepareTaskBranch(taskSlug, isCloudMode), called before the try
\* statement: it throws on uncommitted changes and on a failing git command.
RT_Prepare(ok) ==
    /\ rtpc = "prepare"
    /\ IF ok
       THEN rtpc' = "loop" /\ stepIdx' = 1 /\ UNCHANGED runResult
       ELSE /\ rtpc' = "threw"
            /\ runResult' = [runResult EXCEPT ![runNo] = "threw"]
            /\ UNCHANGED stepIdx
    /\ UNCHANGED <<repVars, gitVars, latestRunPrUrl, commitCreated, prStep, extVars, runNo,
                   isCloudMode, createPR, taskGiven, active, phaseLog, halted, taskError,
                   runCreated, planExists, research, planAgent, planEvents, planWrittenBy>>

\* for (const step of TASK_WORKFLOW): step.run is called.
StepBegin ==
    /\ rtpc = "loop"
    /\ rtpc' = "inPhase"
    /\ active' = active + 1
    /\ phaseLog' = Append(phaseLog, stepIdx)
    /\ UNCHANGED <<repVars, gitVars, latestRunPrUrl, commitCreated, prStep, extVars, runNo,
                   isCloudMode, createPR, taskGiven, stepIdx, halted, taskError, runCreated,
                   planExists, research, planAgent, planEvents, planWrittenBy, runResult>>

\* The loop that goes on after a result with halt.
AfterStep_IgnoreHalt(halt) ==
    /\ active' = active - 1
    /\ halted' = (halted \/ halt)
    /\ IF stepIdx < Len(TASK_WORKFLOW)
       THEN rtpc' = "loop" /\ stepIdx' = stepIdx + 1
       ELSE rtpc' = "pr" /\ UNCHANGED stepIdx
    /\ UNCHANGED taskError

\* step.run resolved with a result: `if (result.halt) return;` leaves the try
\* statement for its finally clause, otherwise the loop goes on.
AfterStep(halt) ==
    /\ active' = active - 1
    /\ IF halt
       THEN /\ halted' = TRUE
            /\ rtpc' = "finally"
            /\ UNCHANGED stepIdx
       ELSE /\ UNCHANGED halted
            /\ IF stepIdx < Len(TASK_WORKFLOW)
               THEN rtpc' = "loop" /\ stepIdx' = stepIdx + 1
               ELSE rtpc' = "pr" /\ UNCHANGED stepIdx
    /\ UNCHANGED taskError

\* step.run rejected: the catch clause sets taskError.
StepThrows ==
    /\ active' = active - 1
    /\ taskError' = TRUE
    /\ rtpc' = "finally"
    /\ UNCHANGED <<halted, stepIdx>>

\* The step the loop stands at.
CurrentStep == TASK_WORKFLOW[stepIdx]

\* planStep. `out` is what the agent stream and the git commands after it do:
\* "text" (the stream ends with assistant text), "blank" (it ends without),
\* "streamFails" (the stream rejects), "gitFails" (text is written, the commit
\* rejects). After the commit the step emits phase_complete and returns completed,
\* with halt outside cloud mode.
PlanStep(out) ==
    /\ rtpc = "inPhase"
    /\ CurrentStep = "plan"
    /\ IF planExists
       THEN /\ AfterStep(FALSE)
            /\ UNCHANGED <<planExists, planAgent, planEvents, planWrittenBy>>
       ELSE IF research = "open"
       THEN /\ AfterStep(TRUE)
            /\ UNCHANGED <<planExists, planAgent, planEvents, planWrittenBy>>
       ELSE /\ planAgent' = [planAgent EXCEPT ![runNo] = @ + 1]
            /\ planEvents' = planEvents + (IF out \in {"streamFails", "gitFails"} THEN 0 ELSE 1)
            /\ planExists' = (out \in {"text", "gitFails"})
            /\ planWrittenBy' = IF out \in {"text", "gitFails"}
                                THEN planWrittenBy \cup {runNo}
                                ELSE planWrittenBy
            /\ IF out \in {"streamFails", "gitFails"}
               THEN StepThrows
               ELSE AfterStep(~isCloudMode)
    /\ UNCHANGED <<repVars, gitVars, latestRunPrUrl, commitCreated, prStep, extVars, runNo,
                   isCloudMode, createPR, taskGiven, phaseLog, runCreated, research,
                   runResult>>

\* finalizeStep. `out` is "ok", "collectFails" (collectTaskArtifacts rejects, before
\* anything is removed) or "gitFails" (the commit of the removal rejects). A failed
\* upload is caught inside the step; cleanupTaskDirectory runs in every other case.
FinalizeStep(out) ==
    /\ rtpc = "inPhase"
    /\ CurrentStep = "finalize"
    /\ IF out = "collectFails"
       THEN /\ StepThrows
            /\ UNCHANGED <<planExists, research>>
       ELSE /\ planExists' = FALSE
            /\ research' = "none"
            /\ IF out = "gitFails" THEN StepThrows ELSE AfterStep(FALSE)
    /\ UNCHANGED <<repVars, gitVars, latestRunPrUrl, commitCreated, prStep, extVars, runNo,
                   isCloudMode, createPR, taskGiven, phaseLog, runCreated, planAgent,
                   planEvents, planWrittenBy, runResult>>

\* The research and build steps: they resolve with or without halt, or reject. The
\* research step leaves research.json as it is or, where there is none, writes one;
\* the build step stores its result, with commitCreated, in stepResults.
OtherStep(out, res, cc) ==
    /\ rtpc = "inPhase"
    /\ CurrentStep \in {"research", "build"}
    /\ cc => (CurrentStep = "build" /\ out = "completed")
    /\ commitCreated' = IF CurrentStep = "build" THEN cc ELSE commitCreated
    /\ research' = IF CurrentStep = "research" /\ research = "none" /\ out # "throws"
                   THEN res
                   ELSE research
    /\ CASE out = "throws" -> StepThrows
         [] out = "halt" -> AfterStep(TRUE)
         [] OTHER -> AfterStep(FALSE)
    /\ UNCHANGED <<repVars, gitVars, extVars, latestRunPrUrl, prStep, runNo, isCloudMode,
                   createPR, taskGiven, phaseLog, runCreated, planExists, planAgent, planEvents,
                   planWrittenBy, runResult>>

\* const shouldCreatePR = options.createPR ?? isCloudMode
shouldCreatePR == IF createPR = "unset" THEN isCloudMode ELSE createPR = "yes"

\* The change request is created whether or not the build step made a commit.
ensurePullRequest_NoCommitCheck(out) ==
    IF latestRunPrUrl THEN "exists"
    ELSE CASE out = "branchFails" -> "branchFailed"
           [] out = "pushFails" -> "pushFailed"
           [] out = "ghFails" -> "ghFailed"
           [] out = "attachFails" -> "opened"
           [] OTHER -> "attached"

\* ensurePullRequest(task, stepResults): what it does, given how the commands and
\* calls it makes end. `out` is "ok", "branchFails" (getCurrentBranch rejects),
\* "pushFails" (pushBranch rejects), "ghFails" (gh pr create rejects) or
\* "attachFails" (updateTaskRun rejects, which is caught).
ensurePullRequest(out) ==
    IF latestRunPrUrl THEN "exists"
    ELSE IF ~commitCreated THEN "noCommit"
    ELSE CASE out = "branchFails" -> "branchFailed"
           [] out = "pushFails" -> "pushFailed"
           [] out = "ghFails" -> "ghFailed"
           [] out = "attachFails" -> "opened"
           [] OTHER -> "attached"

\* After the loop: ensurePullRequest where shouldCreatePR, which may reject.
RT_PullRequest(out) ==
    /\ rtpc = "pr"
    /\ rtpc' = "finally"
    /\ prStep' = IF shouldCreatePR THEN ensurePullRequest(out) ELSE "notWanted"
    /\ taskError' = (prStep' \in {"branchFailed", "pushFailed", "ghFailed"})
    /\ UNCHANGED <<repVars, gitVars, extVars, latestRunPrUrl, commitCreated, runNo,
                   isCloudMode, createPR, taskGiven, stepIdx, active, phaseLog, halted,
                   runCreated, planExists, research, planAgent, planEvents, planWrittenBy,
                   runResult>>

\* finally, taskError unset: await this.progressReporter.complete()
RT_Complete ==
    /\ rtpc = "finally"
    /\ ~taskError
    /\ CompleteCall

\* finally, taskError set: await this.progressReporter.fail(taskError)
RT_Fail ==
    /\ rtpc = "finally"
    /\ taskError
    /\ FailCall

\* The reporter's call resolved: runTask throws taskError or returns.
RT_Return ==
    /\ rtpc = "finally"
    /\ pc[IF taskError THEN "fail" ELSE "complete"] = "done"
    /\ rtpc' = IF taskError THEN "threw" ELSE "returned"
    /\ runResult' = [runResult EXCEPT ![runNo] = rtpc']
    /\ UNCHANGED <<repVars, gitVars, latestRunPrUrl, commitCreated, prStep, extVars, runNo,
                   isCloudMode, createPR, taskGiven, stepIdx, active, phaseLog, halted,
                   taskError, runCreated, planExists, research, planAgent, planEvents,
                   planWrittenBy>>

SpecRun ==
    InitRun /\ [][\/ RunTaskCall
                  \/ \E ok \in BOOLEAN : RT_Resolve(ok)
                  \/ \E ok \in BOOLEAN : RT_Start(ok)
                  \/ RT_Started
                  \/ \E ok \in BOOLEAN : RT_Prepare(ok)
                  \/ StepBegin
                  \/ \E out \in {"text", "blank", "streamFails", "gitFails"} : PlanStep(out)
                  \/ \E out \in {"ok", "collectFails", "gitFails"} : FinalizeStep(out)
                  \/ \E out \in {"completed", "halt", "throws"},
                        res \in {"none", "open", "answered"}, cc \in BOOLEAN :
                        OtherStep(out, res, cc)
                  \/ \E out \in {"ok", "branchFails", "pushFails", "ghFails", "attachFails"} :
                        RT_PullRequest(out)
                  \/ RT_Complete
                  \/ RT_Fail
                  \/ CompleteFlushed
                  \/ \E p \in Procs : Drained(p)
                  \/ \E p \in Procs, ok \in BOOLEAN : DirectAppendDone(p, ok)
                  \/ \E p \in Procs, ok \in BOOLEAN : UpdateDone(p, ok)
                  \/ RT_Return]_vars

\* ------------------------------------------------ claims: the reporter

\* The appendTaskRunLog calls in flight: the head's, and those update issued.
InFlightAppends ==
    (IF queue # <<>> /\ ~backoff THEN 1 ELSE 0)
    + Cardinality({p \in Procs : pc[p] = "appendWait"})

\* The events recorded whose append has not been issued yet.
Unissued ==
    Range(tokenBuffer)
    \cup UNION {Range(queue[q].evs) : q \in {r \in 1..Len(queue) : attempts[queue[r].idx] = 0}}

\* The events recorded whose append has not settled yet.
Unsettled ==
    Range(tokenBuffer) \cup UNION {Range(queue[q].evs) : q \in 1..Len(queue)}

\* C1: the appends are issued in the order recordEvent was called: when the append
\* carrying event j has been issued, no event recorded before j still waits for
\* its append, whatever the kinds of the events.
C1_RecordOrder == \A e \in Unissued : e > maxIssued

\* C2: at most one appendTaskRunLog call is in flight at any moment.
C2_OneAppendInFlight == InFlightAppends <= 1

\* C8: an entry gets at most 3 append attempts, waits 200 ms and then 400 ms
\* between them, is not attempted again once written, and is dropped after the
\* 3rd failure with no further delay.
C8_BoundedRetry ==
    \A k \in 1..enq :
        LET retrying == queue # <<>> /\ Head(queue).idx = k /\ backoff
        IN  /\ attempts[k] <= 3
            /\ Len(waited[k]) <= 2
            /\ \A i \in 1..Len(waited[k]) : waited[k][i] = <<200, 400>>[i]
            /\ Len(waited[k]) = IF retrying THEN attempts[k]
                                ELSE Max(attempts[k] - 1, 0)
            /\ outcome[k] = "dropped" => attempts[k] = 3
            /\ outcome[k] # "pending" => \A q \in 1..Len(queue) : queue[q].idx # k

C8_Witness ==
    \E k \in 1..enq :
        /\ outcome[k] = "dropped"
        /\ waited[k] = <<200, 400>>
        /\ \E j \in 1..enq : outcome[j] = "written" /\ attempts[j] = 1

\* C9: an entry that failed on all attempts does not block the queue: the entries
\* behind it are attempted in order, the head of a non-empty queue is always being
\* written or retried, and an entry is dropped only after its own 3 failures.
C9_QueueNeverBlocked ==
    /\ Len(queue) = enq - done
    /\ \A q \in 1..Len(queue) : queue[q].idx = done + q
    /\ queue # <<>> =>
          /\ attempt \in 1..LOG_APPEND_MAX_RETRIES
          /\ attempts[Head(queue).idx] = attempt
    /\ \A k \in 1..done :
          /\ outcome[k] \in {"written", "dropped"}
          /\ attempts[k] >= 1
          /\ outcome[k] = "dropped" => attempts[k] = LOG_APPEND_MAX_RETRIES

C9_Witness ==
    \E k \in 1..enq, j \in 1..enq :
        k < j /\ outcome[k] = "dropped" /\ outcome[j] = "written"

\* C10: when complete() issues the completed status update, every event recorded
\* before complete() was called has had its append settled: none is still
\* buffered, queued, in flight or awaiting a retry.
C10_CompleteDrainsFirst ==
    "completed" \in updates => \A e \in Unsettled : e > completeAt

C10_Witness ==
    /\ "completed" \in updates
    /\ \E i \in 1..Len(flushes) : flushes[i].by = "complete"
    /\ enq >= 2
    /\ nRec > completeAt

\* C11: when fail() issues the failed status update, every event recorded before
\* fail() was called, buffered tokens included, has had its append settled: none
\* is appended after the update.
C11_FailDrainsFirst ==
    "failed" \in updates => \A e \in Unsettled : e > failAt

\* complete() or fail() has returned, after issuing its status update for the Run.
Terminal ==
    \/ pc["complete"] = "done" /\ "completed" \in updates
    \/ pc["fail"] = "done" /\ "failed" \in updates

\* C12: a recordEvent or appendLog call received after complete() or fail() has
\* returned is a no-op: it queues no log entry, buffers no token and issues no
\* remote append.
C12_TerminalNoOps ==
    [][(Terminal /\ (nRec' # nRec \/ nLogCalls' # nLogCalls)) =>
            /\ <<queue, attempt, backoff, enq, maxIssued, attempts, waited,
                 outcome>>' = <<queue, attempt, backoff, enq, maxIssued, attempts, waited,
                 outcome>>
            /\ <<tokenBuffer, tokenCount>>' = <<tokenBuffer, tokenCount>>
            /\ pc'["appendLog"] # "appendWait"]_vars

\* C13: after a start() that created no Run (no API client, or createTaskRun
\* failed) the handle is unset and no call issues a remote call: nothing is queued
\* or buffered, no timer is armed, no append and no status update is issued.
C13_NoRunNoCalls ==
    (startCalled /\ taskRun = "none") =>
        /\ enq = 0
        /\ queue = <<>>
        /\ tokenBuffer = <<>>
        /\ tokenCount = 0
        /\ ~tokenFlushTimer
        /\ updates = {}
        /\ infoLog = <<>>
        /\ \A p \in Procs : pc[p] \notin {"appendWait", "updateWait"}

\* createTaskRun failed; events were recorded, a line was logged and complete() has
\* returned.
C13_Witness ==
    /\ hasApi
    /\ startCalled
    /\ taskRun = "none"
    /\ nRec >= 2
    /\ nLogCalls >= 1
    /\ pc["complete"] = "done"

\* C14: whatever remote calls fail, no call of start, recordEvent, appendLog,
\* complete or fail rejects: every failure is caught inside the reporter.
C14_FailuresNeverRaise == raised = {}

\* A queued write, the append of the completion line and the status update have
\* failed, and complete() has returned.
C14_Witness ==
    /\ nFail = MaxFailures
    /\ pc["complete"] = "done"
    /\ "completed" \in updates
    /\ taskRun = "started"
    /\ infoLog = <<>>
    /\ enq >= 1

Quiet == queue = <<>> /\ ~tokenFlushTimer

\* C7: once 250 token events were recorded and nothing is left to happen, exactly
\* three token flushes were made: two by the batch size, of 100 tokens each, and
\* one by the timer, of the remaining 50.
C7_TokenBatching ==
    (Active /\ nRec = BurstTokens /\ Quiet) =>
        flushes = << [n |-> TOKEN_BATCH_SIZE, by |-> "batch"],
                     [n |-> TOKEN_BATCH_SIZE, by |-> "batch"],
                     [n |-> BurstTokens - 2 * TOKEN_BATCH_SIZE, by |-> "timer"] >>

\* C35: on an active Run, whenever the token buffer holds a recorded token (one
\* that no flush has taken yet), the flush timer is armed, so that the token
\* reaches the log within the flush interval without another event or complete().
C35_BufferedTokenHasTimer ==
    (Active /\ tokenBuffer # <<>>) => tokenFlushTimer

\* The tokens the first k flushes took.
RECURSIVE Flushed(_)
Flushed(k) == IF k = 0 THEN 0 ELSE Flushed(k - 1) + flushes[k].n

\* The n tokens recorded after the first `from`, in the order of recordEvent.
Tokens(from, n) == [i \in 1..n |-> from + i]

\* C36: on an active Run whose appends all succeed, the token entries carry the
\* tokens recorded, each once and in the order of recordEvent: the k-th entry
\* chained holds the tokens that follow those of the entries before it, the
\* buffer holds the tokens recorded since the last flush, and once complete()
\* has returned every token recorded before it was written to the log.
C36_TokensConserved ==
    Active =>
        /\ \A j \in 1..Len(queue) :
               queue[j].evs = Tokens(Flushed(queue[j].idx - 1), flushes[queue[j].idx].n)
        /\ tokenBuffer = Tokens(Flushed(Len(flushes)), nRec - Flushed(Len(flushes)))
        /\ \A k \in 1..Len(outcome) : outcome[k] = "written" <=> k <= done
        /\ pc["complete"] = "done" =>
               /\ queue = <<>>
               /\ done = Len(flushes)
               /\ Flushed(Len(flushes)) = completeAt

\* 250 tokens were recorded and complete() has returned: a flush by the batch
\* size, one by the timer and the one of complete() carried them to the log.
C36_Witness ==
    /\ Active
    /\ pc["complete"] = "done"
    /\ completeAt = BurstTokens
    /\ {flushes[k].by : k \in 1..Len(flushes)} = {"batch", "timer", "complete"}
    /\ \A k \in 1..Len(outcome) : outcome[k] = "written"
    /\ Flushed(Len(flushes)) = BurstTokens

\* --------------------------------------------------- claims: runTask

\* C3: when a phase's result carries halt, runTask returns without raising and the
\* Run it created stays in a non-terminal status: no completed or failed update is
\* issued and no error message is set.
C3_HaltLeavesRunOpen ==
    (rtpc = "returned" /\ halted /\ runCreated) =>
        /\ taskRun \in {"started", "in_progress"}
        /\ updates \cap {"completed", "failed"} = {}
        /\ errorMessage = ""

\* C4: when runTask has thrown and a Run was created, fail() was called on the
\* reporter before the throw, so the failed update was issued for the Run.
C4_ThrowMarksRunFailed ==
    (rtpc = "threw" /\ runCreated) => "failed" \in updates

\* C5: the phases are started strictly in the declared order, one at a time; the
\* first result with halt ends the iteration, and runTask then returns without
\* raising.
C5_PhasesInOrder ==
    /\ active <= 1
    /\ phaseLog = [i \in 1..Len(phaseLog) |-> i]
    /\ Len(phaseLog) <= Len(TASK_WORKFLOW)
    /\ rtpc = "inPhase" => (active = 1 /\ stepIdx = Len(phaseLog))
    /\ rtpc = "loop" => (active = 0 /\ stepIdx = Len(phaseLog) + 1)
    /\ halted => /\ rtpc \in {"finally", "returned"}
                 /\ ~taskError
                 /\ active = 0
                 /\ stepIdx = Len(phaseLog)

\* runTask returned after the plan step, the second of the list, halted it.
C5_Witness ==
    /\ rtpc = "returned"
    /\ halted
    /\ phaseLog = <<1, 2>>

\* C38: once the planning phase of a runTask call has run the agent, it has run it
\* once; unless the step threw it emitted phase_complete for planning exactly
\* once, and none when the stream or the commit before the event rejected. In
\* local mode the step's result halts the call: no phase after planning is
\* started in it. In cloud mode the result does not halt: the loop stands at
\* the next phase or has started it.
C38_LocalPausesAfterPlanning ==
    (runNo >= 1 /\ planAgent[runNo] > 0) =>
        LET threw == taskError /\ Len(phaseLog) = 2
        IN  /\ planAgent[runNo] = 1
            /\ planEvents = IF threw THEN 0 ELSE 1
            /\ ~isCloudMode =>
                   /\ phaseLog = <<1, 2>>
                   /\ ~threw => (halted /\ rtpc \notin {"loop", "inPhase", "pr"})
            /\ (isCloudMode /\ ~threw) =>
                   /\ stepIdx >= 3
                   /\ rtpc = "loop" \/ Len(phaseLog) >= 3
                   /\ halted => Len(phaseLog) >= 3

\* The first call, in cloud mode, planned and went through the later phases;
\* the second, in local mode, planned again and returned after planning.
C38_Witness ==
    /\ runNo = 2
    /\ ~isCloudMode
    /\ runResult[1] = "returned"
    /\ planAgent = [r \in 1..MaxRuns |-> 1]
    /\ planEvents = 1
    /\ phaseLog = <<1, 2>>
    /\ halted
    /\ rtpc = "returned"

\* C6: when the first of two runTask calls in sequence wrote the plan artifact and
\* returned, the second call skips the planning phase: the planning agent is not
\* invoked a second time.
C6_IdempotentResume ==
    (runNo >= 2 /\ 1 \in planWrittenBy /\ runResult[1] = "returned") =>
        planAgent[2] = 0


\* ---------------------------------------------------------------------------
\* GitManager: unique planning and implementation branch names
\* ---------------------------------------------------------------------------

\* The largest suffix k of a branch B-k that exists when a name is asked for.
MaxSuffix == 6

\* branchExists for the names B (k = 0) and B-k: git rev-parse --verify answers.
branchExists(taken, k) == k \in taken

\* The loop of generateUniqueBranchName: B-counter, B-(counter+1), ...
RECURSIVE uniqueName(_, _)
uniqueName(taken, counter) ==
    IF branchExists(taken, counter) THEN uniqueName(taken, counter + 1) ELSE counter

\* The name is B-1 whenever B exists, whether B-1 exists or not.
generateUniqueBranchName_NoLoop(taken) ==
    IF ~branchExists(taken, 0) THEN 0 ELSE 1

\* generateUniqueBranchName(baseName).
generateUniqueBranchName(taken) ==
    IF ~branchExists(taken, 0) THEN 0 ELSE uniqueName(taken, 1)

\* The loop of the older createTaskPlanningBranch and createTaskImplementationBranch:
\* branchName starts as B and is replaced by B-counter while it exists.
RECURSIVE olderUniqueName(_, _, _)
olderUniqueName(taken, branchName, counter) ==
    IF branchExists(taken, branchName)
    THEN olderUniqueName(taken, counter, counter + 1)
    ELSE branchName

\* createBranch(branchName, base): git checkout -b refuses a name that exists.
createBranch(taken, k) == IF k \in taken THEN taken ELSE taken \cup {k}

\* createTaskPlanningBranch / createTaskImplementationBranch: choose the name, create it.
CreateTaskPlanningBranch ==
    /\ Cardinality(uTaken) <= MaxSuffix
    /\ LET k == generateUniqueBranchName(uTaken)
       IN  /\ uResult' = k
           /\ uTaken' = createBranch(uTaken, k)
    /\ uTaken0' = uTaken
    /\ uBy' = "git-manager.ts"
    /\ UNCHANGED <<repVars, rtVars, extVars, branches, current, dirty, staged, gop, gpc,
                   glog, gres, gerr, gfails, gevents>>

\* The older version of the two methods.
CreateTaskPlanningBranchOlder ==
    /\ Cardinality(uTaken) <= MaxSuffix
    /\ LET k == olderUniqueName(uTaken, 0, 1)
       IN  /\ uResult' = k
           /\ uTaken' = createBranch(uTaken, k)
    /\ uTaken0' = uTaken
    /\ uBy' = "part_008"
    /\ UNCHANGED <<repVars, rtVars, extVars, branches, current, dirty, staged, gop, gpc,
                   glog, gres, gerr, gfails, gevents>>

\* Any set of the branches B, B-1, ..., B-MaxSuffix exists at the start.
InitUnique ==
    /\ InitReporter
    /\ InitRunTaskIdle
    /\ InitExtIdle("")
    /\ InitGitIdle("unique")
    /\ uTaken \in SUBSET (0..MaxSuffix)

SpecUnique ==
    InitUnique /\ [][\/ CreateTaskPlanningBranch
                     \/ CreateTaskPlanningBranchOlder]_vars

MaxGitFailures == 1

\* Paths, as their segments: an artifact, a source file, and a file of a
\* directory named .posthog that is not the root one.
Paths == {<<".posthog", "plan.md">>, <<"src", "a.ts">>, <<"docs", ".posthog", "n.md">>}

\* Branch names, as the pieces of their text: the task has slug "a".
MainBranch == <<"main">>
MasterBranch == <<"master">>
TaskBranch == <<"posthog/task-", "a">>
PlanningBranch == <<"posthog/task-", "a", "-planning">>
OtherTaskBranch == <<"posthog/task-", "a", "b">>

\* git branch --list --all prints the branches in the order of their names.
BranchOrder == <<MainBranch, TaskBranch, PlanningBranch, OtherTaskBranch>>

\* The errors GitManager throws itself, before any git command fails.
Guards ==
    {Cmd(m, NoBranch) : m \in {"Cannot start task with uncommitted changes",
                               "Uncommitted changes detected",
                               "Cannot determine default branch"}}

\* The path lies in the artifact namespace, the root directory .posthog.
InNamespace(p) == p[1] = ".posthog"

\* trimmed.includes('.posthog/'): some directory of the path is named .posthog.
includesPosthogDir(p) == \E i \in 1..(Len(p) - 1) : p[i] = ".posthog"

\* cleanBranch.startsWith(branchPattern).
startsWith(b, pattern) ==
    /\ Len(b) >= Len(pattern)
    /\ SubSeq(b, 1, Len(pattern)) = pattern

\* The command fails and is run a second time.
runGitCommand_Retry(log, at, cmd, ok) ==
    LET e == [at |-> at, cmd |-> cmd, ok |-> ok, staged |-> staged # {}]
    IN  IF ok THEN Append(log, e) ELSE Append(Append(log, e), e)

\* runGitCommand(command): the command is run once; glog keeps where it was
\* called from, its text, its outcome and whether anything was staged then.
runGitCommand(log, at, cmd, ok) ==
    Append(log, [at |-> at, cmd |-> cmd, ok |-> ok, staged |-> staged # {}])

\* One call of runGitCommand by the operation under way; inj: the command fails
\* for a reason of its own.
Run(cmd, ok, inj) ==
    /\ inj => gfails < MaxGitFailures
    /\ glog' = runGitCommand(glog, gpc, cmd, ok)
    /\ gfails' = gfails + (IF inj THEN 1 ELSE 0)

\* throw new Error(`Git command failed: ${command}\n${error}`), or a guard's error.
Throw(err) ==
    /\ gpc' = "done"
    /\ gres' = "threw"
    /\ gerr' = err

Return(result) ==
    /\ gpc' = "done"
    /\ gres' = result
    /\ UNCHANGED gerr

Goto(label) ==
    /\ gpc' = label
    /\ UNCHANGED <<gres, gerr>>

\* hasChanges(): status --porcelain, the lines that include '.posthog/' dropped;
\* false when the command fails.
hasChanges(ok) ==
    ok /\ \E p \in dirty \cup staged : ~includesPosthogDir(p)

HasChanges(inj) ==
    /\ gpc \in {"p_status", "r_status", "c_status", "o_status", "tf_status"}
    /\ Run(Cmd("status --porcelain", NoBranch), ~inj, inj)
    /\ LET has == hasChanges(~inj)
       IN  CASE gpc = "p_status" ->
                    IF has THEN Throw(Cmd("Cannot start task with uncommitted changes", NoBranch))
                    ELSE Goto("r_cur")
             [] gpc = "r_status" ->
                    Goto(IF has THEN "t_list" ELSE "r_checkout")
             [] gpc = "c_status" ->
                    IF has THEN Throw(Cmd("Uncommitted changes detected", NoBranch))
                    ELSE Goto("c_checkout")
             [] gpc = "o_status" ->
                    IF has THEN Throw(Cmd("Uncommitted changes detected", NoBranch))
                    ELSE Goto("o_exists")
             [] gpc = "tf_status" ->
                    IF ~gop.external /\ ~has THEN Return("nothing created")
                    ELSE IF has THEN Goto("tf_add")
                    ELSE IF gop.push THEN Goto("tf_cur")
                    ELSE Return("commitCreated")
    /\ UNCHANGED <<repVars, rtVars, extVars, branches, current, dirty, staged, uTaken,
                   uTaken0, uResult, uBy, gop, gevents>>

\* getCurrentBranch(): branch --show-current.
GetCurrentBranch(inj) ==
    /\ gpc \in {"r_cur", "c_cur", "cp_cur", "cap_cur", "tf_cur"}
    /\ Run(Cmd("branch --show-current", NoBranch), ~inj, inj)
    /\ IF inj
       THEN /\ Throw(Cmd("branch --show-current", NoBranch))
            /\ UNCHANGED gop
       ELSE /\ gop' = [gop EXCEPT !.cur = current]
            /\ CASE gpc = "r_cur" -> Goto("r_def")
                 [] gpc = "c_cur" ->
                        Goto(IF current # gop.def THEN "c_status" ELSE "o_status")
                 [] gpc = "cp_cur" -> Goto("cp_add")
                 [] gpc = "cap_cur" -> Goto("cap_push")
                 [] gpc = "tf_cur" -> Goto("tf_push")
    /\ UNCHANGED <<repVars, rtVars, extVars, branches, current, dirty, staged, uTaken,
                   uTaken0, uResult, uBy, gevents>>

\* Where the caller of getDefaultBranch goes on with the answer.
AfterDefault(site, def) ==
    IF site = "r"
    THEN Goto(IF gop.cur = def THEN "t_list" ELSE "r_status")
    ELSE Goto("c_cur")

\* getDefaultBranch(): symbolic-ref of origin/HEAD, which names main here; when
\* it fails, main and master are probed.
GetDefaultBranch(inj) ==
    /\ gpc \in {"r_def", "c_def"}
    /\ Run(Cmd("symbolic-ref refs/remotes/origin/HEAD", NoBranch), ~inj, inj)
    /\ IF inj
       THEN /\ Goto(IF gpc = "r_def" THEN "r_def_main" ELSE "c_def_main")
            /\ UNCHANGED gop
       ELSE /\ gop' = [gop EXCEPT !.def = MainBranch]
            /\ AfterDefault(IF gpc = "r_def" THEN "r" ELSE "c", MainBranch)
    /\ UNCHANGED <<repVars, rtVars, extVars, branches, current, dirty, staged, uTaken,
                   uTaken0, uResult, uBy, gevents>>

\* branchExists(name): rev-parse --verify, false when it fails.
BranchExists(inj) ==
    /\ gpc \in {"r_def_main", "r_def_master", "c_def_main", "c_def_master", "o_exists"}
    /\ LET name == CASE gpc \in {"r_def_main", "c_def_main"} -> MainBranch
                     [] gpc \in {"r_def_master", "c_def_master"} -> MasterBranch
                     [] gpc = "o_exists" -> TaskBranch
           site == IF gpc \in {"r_def_main", "r_def_master"} THEN "r" ELSE "c"
           exists == name \in branches /\ ~inj
       IN  /\ inj => name \in branches
           /\ Run(Cmd("rev-parse --verify", name), exists, inj)
           /\ CASE gpc \in {"r_def_main", "c_def_main"} ->
                       IF exists
                       THEN /\ gop' = [gop EXCEPT !.def = MainBranch]
                            /\ AfterDefault(site, MainBranch)
                       ELSE /\ Goto(IF site = "r" THEN "r_def_master" ELSE "c_def_master")
                            /\ UNCHANGED gop
                [] gpc \in {"r_def_master", "c_def_master"} ->
                       IF exists
                       THEN /\ gop' = [gop EXCEPT !.def = MasterBranch]
                            /\ AfterDefault(site, MasterBranch)
                       ELSE /\ Throw(Cmd("Cannot determine default branch", NoBranch))
                            /\ UNCHANGED gop
                [] gpc = "o_exists" ->
                       /\ Goto(IF exists THEN "o_switch" ELSE "o_create")
                       /\ UNCHANGED gop
    /\ UNCHANGED <<repVars, rtVars, extVars, branches, current, dirty, staged, uTaken,
                   uTaken0, uResult, uBy, gevents>>

\* switchToBranch(name): checkout. After createTaskBranch returns, the agent
\* emits branch_created.
SwitchToBranch(inj) ==
    /\ gpc \in {"r_checkout", "s_checkout", "c_checkout", "o_switch"}
    /\ LET name == CASE gpc \in {"r_checkout", "c_checkout"} -> gop.def
                     [] gpc = "s_checkout" -> gop.existing
                     [] gpc = "o_switch" -> TaskBranch
           ok == name \in branches /\ ~inj
       IN  /\ inj => name \in branches
           /\ Run(Cmd("checkout", name), ok, inj)
           /\ IF ok
              THEN /\ current' = name
                   /\ CASE gpc = "r_checkout" -> Goto("t_list")
                        [] gpc = "s_checkout" -> Return("returned")
                        [] gpc = "c_checkout" -> Goto("o_status")
                        [] gpc = "o_switch" -> Goto("a_add")
                   /\ gevents' = gevents + (IF gpc = "o_switch" THEN 1 ELSE 0)
              ELSE /\ Throw(Cmd("checkout", name))
                   /\ UNCHANGED <<current, gevents>>
    /\ UNCHANGED <<repVars, rtVars, extVars, branches, dirty, staged, uTaken, uTaken0,
                   uResult, uBy, gop>>

\* The first line of the list that starts with posthog/task-<slug>, null when none does.
firstMatch(listed) ==
    LET hits == {i \in 1..Len(BranchOrder) :
                    /\ BranchOrder[i] \in listed
                    /\ startsWith(BranchOrder[i], TaskBranch)}
    IN  IF hits = {} THEN NoBranch
        ELSE BranchOrder[CHOOSE i \in hits : \A j \in hits : i <= j]

\* getTaskBranch(taskSlug): branch --list --all; null when the command fails.
GetTaskBranch(inj) ==
    /\ gpc = "t_list"
    /\ Run(Cmd("branch --list --all", NoBranch), ~inj, inj)
    /\ LET existingBranch == IF inj THEN NoBranch ELSE firstMatch(branches)
       IN  /\ gop' = [gop EXCEPT !.existing = existingBranch]
           /\ Goto(IF existingBranch = NoBranch THEN "c_def" ELSE "s_checkout")
    /\ UNCHANGED <<repVars, rtVars, extVars, branches, current, dirty, staged, uTaken,
                   uTaken0, uResult, uBy, gevents>>

\* createBranch(name, base) called by createOrSwitchToBranch: checkout -b, which
\* git refuses when the name exists. The agent then emits branch_created.
CreateBranch(inj) ==
    /\ gpc = "o_create"
    /\ LET ok == TaskBranch \notin branches /\ gop.def \in branches /\ ~inj
       IN  /\ Run(Cmd("checkout -b", TaskBranch), ok, inj)
           /\ IF ok
              THEN /\ branches' = branches \cup {TaskBranch}
                   /\ current' = TaskBranch
                   /\ gevents' = gevents + 1
                   /\ Goto("a_add")
              ELSE /\ Throw(Cmd("checkout -b", TaskBranch))
                   /\ UNCHANGED <<branches, current, gevents>>
    /\ UNCHANGED <<repVars, rtVars, extVars, dirty, staged, uTaken, uTaken0, uResult, uBy,
                   gop>>

\* addAllPostHogFiles(): add -A .posthog/, a failure logged and dropped.
AddAllPostHogFiles(inj) ==
    /\ gpc \in {"a_add", "cp_add"}
    /\ Run(Cmd("add -A .posthog/", NoBranch), ~inj, inj)
    /\ LET added == IF inj THEN {} ELSE {p \in dirty : InNamespace(p)}
       IN  /\ staged' = staged \cup added
           /\ dirty' = dirty \ added
    /\ IF gpc = "cp_add" THEN Goto("cp_staged")
       ELSE Goto(IF gop.cloud THEN "cap_staged" ELSE "l_staged")
    /\ UNCHANGED <<repVars, rtVars, extVars, branches, current, uTaken, uTaken0, uResult,
                   uBy, gop, gevents>>

\* commitImplementation and finalize: runGitCommand('add .').
AddAll(inj) ==
    /\ gpc \in {"ci_add", "tf_add"}
    /\ Run(Cmd("add .", NoBranch), ~inj, inj)
    /\ IF inj
       THEN /\ Throw(Cmd("add .", NoBranch))
            /\ UNCHANGED <<staged, dirty>>
       ELSE /\ staged' = staged \cup dirty
            /\ dirty' = {}
            /\ Goto(IF gpc = "ci_add" THEN "ci_staged" ELSE "tf_staged")
    /\ UNCHANGED <<repVars, rtVars, extVars, branches, current, uTaken, uTaken0, uResult,
                   uBy, gop, gevents>>

\* The commit is made whatever the check of the staged changes answered.
shouldCommit_Always(hasStaged, allowEmpty) == TRUE

\* if (!hasChanges && !options?.allowEmpty) return; and if (!hasChanges) return 'No changes to commit'.
shouldCommit(hasStaged, allowEmpty) == hasStaged \/ allowEmpty

\* hasStagedChanges(): diff --cached --name-only, false when it fails.
HasStagedChanges(inj) ==
    /\ gpc \in {"l_staged", "cp_staged", "ci_staged", "cap_staged", "tf_staged"}
    /\ Run(Cmd("diff --cached --name-only", NoBranch), ~inj, inj)
    /\ LET hasStaged == ~inj /\ staged # {}
       IN  CASE gpc = "l_staged" ->
                    IF shouldCommit(hasStaged, FALSE)
                    THEN Goto("l_commit") ELSE Return("returned")
             [] gpc = "cp_staged" ->
                    IF shouldCommit(hasStaged, FALSE)
                    THEN Goto("cp_commit") ELSE Return("No changes to commit")
             [] gpc = "ci_staged" ->
                    IF shouldCommit(hasStaged, FALSE)
                    THEN Goto("ci_commit") ELSE Return("No changes to commit")
             [] gpc = "cap_staged" ->
                    IF shouldCommit(hasStaged, gop.allowEmpty)
                    THEN Goto("cap_commit") ELSE Return("returned")
             [] gpc = "tf_staged" ->
                    IF hasStaged THEN Goto("tf_commit")
                    ELSE IF ~gop.external THEN Return("nothing created")
                    ELSE IF gop.push THEN Goto("tf_cur")
                    ELSE Return("commitCreated")
    /\ UNCHANGED <<repVars, rtVars, extVars, branches, current, dirty, staged, uTaken,
                   uTaken0, uResult, uBy, gop, gevents>>

\* commitChanges(message) and the commit of commitAndPush: buildCommitCommand
\* adds --allow-empty on request; git refuses a commit with nothing staged
\* without it.
CommitChanges(inj) ==
    /\ gpc \in {"l_commit", "cp_commit", "ci_commit", "cap_commit", "tf_commit"}
    /\ LET allowEmpty == gpc = "cap_commit" /\ gop.allowEmpty
           cmd == Cmd(IF allowEmpty THEN "commit --allow-empty" ELSE "commit", NoBranch)
           ok == (staged # {} \/ allowEmpty) /\ ~inj
       IN  /\ inj => (staged # {} \/ allowEmpty)
           /\ Run(cmd, ok, inj)
           /\ IF ok
              THEN /\ staged' = {}
                   /\ CASE gpc = "l_commit" -> Return("returned")
                        [] gpc \in {"cp_commit", "ci_commit"} -> Return("committed")
                        [] gpc = "cap_commit" -> Goto("cap_cur")
                        [] gpc = "tf_commit" ->
                               IF gop.push THEN Goto("tf_cur") ELSE Return("commitCreated")
              ELSE /\ Throw(cmd)
                   /\ UNCHANGED staged
    /\ UNCHANGED <<repVars, rtVars, extVars, branches, current, dirty, uTaken, uTaken0,
                   uResult, uBy, gop, gevents>>

\* pushBranch(currentBranch): push -u origin.
PushBranch(inj) ==
    /\ gpc \in {"cap_push", "tf_push"}
    /\ Run(Cmd("push -u origin", gop.cur), ~inj, inj)
    /\ IF inj THEN Throw(Cmd("push -u origin", gop.cur))
       ELSE Return(IF gpc = "cap_push" THEN "returned" ELSE "commitCreated, pushedBranch")
    /\ UNCHANGED <<repVars, rtVars, extVars, branches, current, dirty, staged, uTaken,
                   uTaken0, uResult, uBy, gop, gevents>>

\* An operation is called: it remembers the repository it found.
Call(name, cloud, allowEmpty, label) ==
    /\ gpc = "idle"
    /\ gop' = [IdleOp EXCEPT !.name = name, !.cloud = cloud, !.allowEmpty = allowEmpty,
                             !.branches0 = branches, !.current0 = current,
                             !.dirty0 = dirty, !.staged0 = staged]
    /\ gpc' = label
    /\ UNCHANGED <<repVars, rtVars, extVars, branches, current, dirty, staged, uTaken,
                   uTaken0, uResult, uBy, glog, gres, gerr, gfails, gevents>>

\* Agent.prepareTaskBranch(taskSlug, isCloudMode); cloud mode commits with allowEmpty.
PrepareTaskBranch(cloud) == Call("prepareTaskBranch", cloud, cloud, "p_status")

\* GitManager.commitPlan(taskId, taskTitle).
CommitPlan == Call("commitPlan", FALSE, FALSE, "cp_cur")

\* GitManager.commitImplementation(taskId, taskTitle).
CommitImplementation == Call("commitImplementation", FALSE, FALSE, "ci_add")

\* GitManager.commitAndPush(message, { allowEmpty }).
CommitAndPush(allowEmpty) == Call("commitAndPush", FALSE, allowEmpty, "cap_staged")

\* The finalize of GitManager.trackCommitsDuring(), called with options.push;
\* external: HEAD moved since trackCommitsDuring() read it.
TrackCommitsFinalize(external, push) ==
    /\ gpc = "idle"
    /\ gop' = [IdleOp EXCEPT !.name = "finalize", !.external = external, !.push = push,
                             !.branches0 = branches, !.current0 = current,
                             !.dirty0 = dirty, !.staged0 = staged]
    /\ gpc' = "tf_sha"
    /\ UNCHANGED <<repVars, rtVars, extVars, branches, current, dirty, staged, uTaken,
                   uTaken0, uResult, uBy, glog, gres, gerr, gfails, gevents>>

\* getCommitSha('HEAD'): rev-parse HEAD.
GetCommitSha(inj) ==
    /\ gpc = "tf_sha"
    /\ Run(Cmd("rev-parse HEAD", NoBranch), ~inj, inj)
    /\ IF inj THEN Throw(Cmd("rev-parse HEAD", NoBranch)) ELSE Goto("tf_status")
    /\ UNCHANGED <<repVars, rtVars, extVars, branches, current, dirty, staged, uTaken,
                   uTaken0, uResult, uBy, gop, gevents>>

\* Any repository: the default branch, any of the task branches, any branch
\* checked out, each path clean, changed or staged.
InitGit ==
    /\ InitReporter
    /\ InitRunTaskIdle
    /\ InitExtIdle("")
    /\ InitGitIdle("git")
    /\ branches \in {{MainBranch} \cup bs :
                         bs \in SUBSET {TaskBranch, PlanningBranch, OtherTaskBranch}}
    /\ current \in branches
    /\ dirty \in SUBSET Paths
    /\ staged \in SUBSET {<<".posthog", "plan.md">>, <<"src", "a.ts">>}
    /\ dirty \cap staged = {}

SpecGit ==
    InitGit /\ [][\/ \E cloud \in BOOLEAN : PrepareTaskBranch(cloud)
                  \/ CommitPlan
                  \/ CommitImplementation
                  \/ \E allowEmpty \in BOOLEAN : CommitAndPush(allowEmpty)
                  \/ \E external, push \in BOOLEAN : TrackCommitsFinalize(external, push)
                  \/ \E inj \in BOOLEAN : GetCommitSha(inj)
                  \/ \E inj \in BOOLEAN : HasChanges(inj)
                  \/ \E inj \in BOOLEAN : GetCurrentBranch(inj)
                  \/ \E inj \in BOOLEAN : GetDefaultBranch(inj)
                  \/ \E inj \in BOOLEAN : BranchExists(inj)
                  \/ \E inj \in BOOLEAN : SwitchToBranch(inj)
                  \/ \E inj \in BOOLEAN : GetTaskBranch(inj)
                  \/ \E inj \in BOOLEAN : CreateBranch(inj)
                  \/ \E inj \in BOOLEAN : AddAllPostHogFiles(inj)
                  \/ \E inj \in BOOLEAN : AddAll(inj)
                  \/ \E inj \in BOOLEAN : HasStagedChanges(inj)
                  \/ \E inj \in BOOLEAN : CommitChanges(inj)
                  \/ \E inj \in BOOLEAN : PushBranch(inj)]_vars

\* The commands of the operation that succeeded and whose text starts with one of verbs.
Ran(verbs) == {i \in 1..Len(glog) : glog[i].ok /\ glog[i].cmd.verb \in verbs}

\* The commands that failed.
Failed == {i \in 1..Len(glog) : ~glog[i].ok}

\* The working tree the operation found had changes outside the artifact namespace.
DirtyOutside == \E p \in gop.dirty0 \cup gop.staged0 : ~InNamespace(p)

\* C16: when the working tree has changes outside .posthog/ (and every git
\* command answers), prepareTaskBranch throws, and it creates no branch, checks
\* none out and makes no commit.
C16_DirtyTreeGuard ==
    (gop.name = "prepareTaskBranch" /\ DirtyOutside /\ gfails = 0) =>
        /\ branches = gop.branches0
        /\ current = gop.current0
        /\ Ran({"checkout", "checkout -b", "commit", "commit --allow-empty"}) = {}
        /\ gpc = "done" => gres = "threw"

\* The step of the operation made at the call site at, 0 when it made none.
EntryAt(at) ==
    IF \E i \in 1..Len(glog) : glog[i].at = at
    THEN CHOOSE i \in 1..Len(glog) : glog[i].at = at
    ELSE 0

\* C17: on a working tree with no change outside .posthog/ (and every git
\* command answering), prepareTaskBranch ends on posthog/task-<slug>: when the
\* branch existed, with no branch_created event and no commit; otherwise it
\* created the branch, emitted branch_created once and committed, in cloud mode
\* always and with a push, in local mode exactly when something was staged.
C17_ReuseOrCreate ==
    (gop.name = "prepareTaskBranch" /\ gpc = "done" /\ ~DirtyOutside /\ gfails = 0) =>
        /\ current = TaskBranch
        /\ TaskBranch \in gop.branches0 =>
               /\ gevents = 0
               /\ Ran({"commit", "commit --allow-empty"}) = {}
        /\ TaskBranch \notin gop.branches0 =>
               /\ branches = gop.branches0 \cup {TaskBranch}
               /\ Ran({"checkout -b"}) # {}
               /\ gevents = 1
               /\ gop.cloud =>
                      /\ Ran({"commit --allow-empty"}) # {}
                      /\ Ran({"push -u origin"}) # {}
               /\ ~gop.cloud =>
                      (Ran({"commit"}) # {} <=> glog[EntryAt("l_staged")].staged)

\* C34: a working tree whose only changes are under .posthog/ (every git command
\* answering) is safe to switch, prepareTaskBranch throwing none of the guards'
\* errors, and is reported as having changes by the check of finalize, which
\* goes on to stage them.
C34_NamespaceChangesCount ==
    (/\ gpc = "done"
     /\ gfails = 0
     /\ gop.dirty0 \cup gop.staged0 # {}
     /\ \A p \in gop.dirty0 \cup gop.staged0 : InNamespace(p)) =>
        /\ gop.name = "prepareTaskBranch" => ~(gres = "threw" /\ gerr \in Guards)
        /\ gop.name = "finalize" => Ran({"add ."}) # {}

\* The commands the operation issued, whatever their outcome, among verbs.
Issued(verbs) == {i \in 1..Len(glog) : glog[i].cmd.verb \in verbs}

\* C37: prepareTaskBranch for slug S checks out or creates no branch of another
\* task nor a planning sub-branch, whatever branches exist, and when it returns
\* (every git command answering) on a repository without posthog/task-S, it has
\* created that branch.
C37_OwnBranchOnly ==
    gop.name = "prepareTaskBranch" =>
        /\ \A i \in Issued({"checkout", "checkout -b"}) :
               glog[i].cmd.arg \notin {PlanningBranch, OtherTaskBranch}
        /\ (gpc = "done" /\ gres # "threw" /\ gfails = 0 /\ TaskBranch \notin gop.branches0) =>
               /\ TaskBranch \in branches
               /\ Ran({"checkout -b"}) # {}

\* hasStagedChanges was asked at the call site at when nothing was staged.
NothingStagedAt(at) == EntryAt(at) # 0 /\ ~glog[EntryAt(at)].staged

CommitOrPush == {"commit", "commit --allow-empty", "push -u origin"}

\* C19: with nothing staged at the check, commitPlan and commitImplementation
\* return 'No changes to commit' and commitAndPush without allowEmpty returns,
\* none of them issuing git commit or git push; with allowEmpty commitAndPush
\* issues the commit whatever is staged, pushes once the commit succeeded, and
\* returns normally only after both.
C19_NothingStagedNoOp ==
    /\ (gop.name = "commitPlan" /\ NothingStagedAt("cp_staged")) =>
           /\ Issued(CommitOrPush) = {}
           /\ gpc = "done" /\ gres = "No changes to commit"
    /\ (gop.name = "commitImplementation" /\ NothingStagedAt("ci_staged")) =>
           /\ Issued(CommitOrPush) = {}
           /\ gpc = "done" /\ gres = "No changes to commit"
    /\ (gop.name = "commitAndPush" /\ ~gop.allowEmpty /\ NothingStagedAt("cap_staged")) =>
           /\ Issued(CommitOrPush) = {}
           /\ gpc = "done" /\ gres = "returned"
    /\ (gop.name = "commitAndPush" /\ gop.allowEmpty /\ EntryAt("cap_staged") # 0) =>
           /\ gpc # "cap_commit" => Issued({"commit --allow-empty"}) # {}
           /\ (Ran({"commit --allow-empty"}) # {} /\ gpc = "done"
                  /\ Ran({"branch --show-current"}) # {}) =>
                  Issued({"push -u origin"}) # {}
           /\ (gpc = "done" /\ gres # "threw") =>
                  /\ gres = "returned"
                  /\ Ran({"commit --allow-empty"}) # {}
                  /\ Ran({"push -u origin"}) # {}

\* commitPlan found nothing staged, every command having answered, and returned
\* 'No changes to commit'.
C19_Witness ==
    /\ gop.name = "commitPlan"
    /\ gfails = 0
    /\ NothingStagedAt("cp_staged")
    /\ gpc = "done"
    /\ gres = "No changes to commit"
    /\ dirty # {}

\* The call sites inside the methods that catch the error of runGitCommand:
\* hasChanges, hasStagedChanges, getDefaultBranch, branchExists, getTaskBranch
\* and addAllPostHogFiles.
ProbeSites ==
    {"p_status", "r_status", "c_status", "o_status", "tf_status",
     "l_staged", "cp_staged", "ci_staged", "cap_staged", "tf_staged",
     "r_def", "c_def", "r_def_main", "r_def_master", "c_def_main", "c_def_master",
     "o_exists", "t_list", "a_add", "cp_add"}

PrAttempted == prStep \in {"branchFailed", "pushFailed", "ghFailed", "opened", "attached"}

\* createPullRequest pushed the branch; gh pr create returned a URL.
PrPushed == prStep \in {"ghFailed", "opened", "attached"}
PrOpened == prStep \in {"opened", "attached"}

\* Change requests are enabled, the latest Run has no pr_url, the build made a commit.
PrWanted == shouldCreatePR /\ ~latestRunPrUrl /\ commitCreated

C22_CreatePRIgnoredInCloud ==
    /\ (isCloudMode /\ prStep # "none") => prStep # "notWanted"
    /\ (~isCloudMode /\ createPR = "unset" /\ prStep # "none") => prStep = "notWanted"

\* ---------------------------------------------------------------------------
\* planStep: calls of the planning step on one task directory
\* ---------------------------------------------------------------------------

\* Messages the agent stream yields in one call; calls of the step.
MaxMessages == 3
MaxPlanCalls == 2

\* String.prototype.trim(), text being a sequence of characters.
RECURSIVE Trim(_)
Trim(t) ==
    IF t # <<>> /\ Head(t) \in {" ", "\n"} THEN Trim(Tail(t))
    ELSE IF t # <<>> /\ t[Len(t)] \in {" ", "\n"} THEN Trim(SubSeq(t, 1, Len(t) - 1))
    ELSE t

\* The messages a stream is made of here: assistant messages with a text, an
\* empty text, a blank text, a text and a TodoWrite call; a user message.
Messages ==
    LET Text(t) == [type |-> "text", name |-> "", text |-> t]
        Tool(n) == [type |-> "tool_use", name |-> n, text |-> <<>>]
        Msg(type, blocks) == [type |-> type, content |-> blocks]
    IN {Msg("assistant", <<Text(<<"a">>)>>),
        Msg("assistant", <<Text(<<>>)>>),
        Msg("assistant", <<Text(<<" ">>)>>),
        Msg("assistant", <<Text(<<" ", "b">>), Tool("TodoWrite")>>),
        Msg("user", <<Text(<<"a">>)>>)}

\* Every text block adds its text and a newline, the empty ones too.
RECURSIVE extractText_EmptyToo(_)
extractText_EmptyToo(blocks) ==
    IF blocks = <<>> THEN <<>>
    ELSE (IF Head(blocks).type = "text"
          THEN Head(blocks).text \o <<"\n">>
          ELSE <<>>) \o extractText_EmptyToo(Tail(blocks))

\* The inner loop over message.message.content: planContent += `${block.text}\n`
\* for the blocks of type text whose text is not empty.
RECURSIVE extractText(_)
extractText(blocks) ==
    IF blocks = <<>> THEN <<>>
    ELSE (IF Head(blocks).type = "text" /\ Head(blocks).text # <<>>
          THEN Head(blocks).text \o <<"\n">>
          ELSE <<>>) \o extractText(Tail(blocks))

\* What the step returns, or the rejection it throws (status "threw", error: the
\* call that rejected).
Result(status, halt, error) == [status |-> status, halt |-> halt, error |-> error]

\* if (existingPlan): the file exists and is not empty.
planFound(content) == content # NoFile /\ content # <<>>

\* The step goes on however research.json looks.
awaitsAnswers_Never(researchData) == FALSE

\* if (researchData?.questions && !researchData.answered): research.json parses,
\* has a questions array (an empty one too) and is not marked answered.
awaitsAnswers(researchData) == researchData \in {"open", "emptyOpen"}

\* The step ends: its result is kept.
PlanEnds(result) ==
    /\ ppc' = "done"
    /\ pres' = result
    /\ plog' = Append(plog, result)

\* planStep is called: readPlan, readResearch, and either an early return or query().
PlanBegin ==
    /\ ppc \in {"idle", "done"}
    /\ Len(plog) < MaxPlanCalls
    /\ existingPlan' = planFile
    /\ pstream' = <<>>
    /\ planContent' = <<>>
    /\ pwritten' = {}
    /\ pcommits' = 0
    /\ IF planFound(planFile)
       THEN PlanEnds(Result("skipped", FALSE, "")) /\ pqueries' = 0
       ELSE IF awaitsAnswers(researchFile)
       THEN PlanEnds(Result("skipped", TRUE, "")) /\ pqueries' = 0
       ELSE /\ pqueries' = 1
            /\ ppc' = "stream"
            /\ pres' = Result("", FALSE, "")
            /\ UNCHANGED plog
    /\ UNCHANGED <<repVars, gitVars, rtVars, todoVars, execVars, stageVars, storeVars,
                   finVars, planFile, researchFile, planCloud>>

\* for await (const message of response): one message. checkAndPersistFromMessage
\* has todos.json written for an assistant message with a TodoWrite call; the
\* texts of an assistant message go to planContent.
PlanMessage(m) ==
    /\ ppc = "stream"
    /\ Len(pstream) < MaxMessages
    /\ pstream' = Append(pstream, m)
    /\ planContent' = planContent \o
           (IF m.type = "assistant" THEN extractText(m.content) ELSE <<>>)
    /\ pwritten' =
           IF /\ m.type = "assistant"
              /\ \E i \in 1..Len(m.content) :
                     m.content[i].type = "tool_use" /\ m.content[i].name = "TodoWrite"
           THEN pwritten \cup {"todos.json"}
           ELSE pwritten
    /\ UNCHANGED <<repVars, gitVars, rtVars, todoVars, execVars, stageVars, storeVars,
                   finVars, planFile, researchFile, planCloud, ppc, pres, pqueries,
                   pcommits, existingPlan, plog>>

\* The loop ends. how "raises": the stream rejects and the step throws.
\* Otherwise writePlan is called when planContent.trim() is not empty; how
\* "writeFails": it rejects.
PlanStreamEnds(how) ==
    /\ ppc = "stream"
    /\ IF how = "raises"
       THEN /\ PlanEnds(Result("threw", FALSE, "stream"))
            /\ UNCHANGED <<planFile, pwritten>>
       ELSE IF Trim(planContent) = <<>>
       THEN /\ how = "ok"
            /\ ppc' = "commit"
            /\ UNCHANGED <<planFile, pwritten, pres, plog>>
       ELSE IF how = "ok"
       THEN /\ planFile' = Trim(planContent)
            /\ pwritten' = pwritten \cup {"plan.md"}
            /\ ppc' = "commit"
            /\ UNCHANGED <<pres, plog>>
       ELSE /\ PlanEnds(Result("threw", FALSE, "writePlan"))
            /\ UNCHANGED <<planFile, pwritten>>
    /\ UNCHANGED <<repVars, gitVars, rtVars, todoVars, execVars, stageVars, storeVars,
                   finVars, researchFile, planCloud, pstream, planContent, pqueries,
                   pcommits, existingPlan>>

\* finalizeStepGitActions(context, step, { commitMessage, allowEmptyCommit }): the
\* commits it makes: one when something changed or the commit may be empty.
finalizeStepGitActions(allowEmpty, changed) == IF allowEmpty \/ changed THEN 1 ELSE 0

\* addAllPostHogFiles, finalizeStepGitActions (ok: the git commands do not
\* reject), and the result: halt outside cloud mode.
PlanCommit(ok) ==
    /\ ppc = "commit"
    /\ IF ok
       THEN /\ pcommits' = pcommits + finalizeStepGitActions(planCloud, pwritten # {})
            /\ PlanEnds(Result("completed", ~planCloud, ""))
       ELSE /\ PlanEnds(Result("threw", FALSE, "git"))
            /\ UNCHANGED pcommits
    /\ UNCHANGED <<repVars, gitVars, rtVars, todoVars, execVars, stageVars, storeVars,
                   finVars, planFile, researchFile, planCloud, pstream, planContent,
                   pqueries, pwritten, existingPlan>>

\* Between two calls the user answers the research questions.
AnswerQuestions ==
    /\ ppc = "done"
    /\ researchFile = "open"
    /\ researchFile' = "answered"
    /\ UNCHANGED <<repVars, gitVars, rtVars, todoVars, execVars, stageVars, storeVars,
                   finVars, planFile, planCloud, ppc, pstream, planContent, pres, pqueries,
                   pwritten, pcommits, existingPlan, plog>>

\* Any task directory: no plan.md, an empty one or one with text; research.json
\* absent, unparsable, without questions, with open or answered questions.
InitPlan ==
    /\ InitReporter
    /\ InitRunTaskIdle
    /\ InitGitIdle("")
    /\ InitExtIdle("plan")
    /\ planFile \in {NoFile, <<>>, <<"a">>}
    /\ researchFile \in {"absent", "corrupt", "noQuestions", "open", "emptyOpen", "answered"}
    /\ planCloud \in BOOLEAN
    /\ ppc = "idle"

SpecPlan ==
    InitPlan /\ [][\/ PlanBegin
                   \/ \E m \in Messages : PlanMessage(m)
                   \/ \E how \in {"ok", "writeFails", "raises"} : PlanStreamEnds(how)
                   \/ \E ok \in BOOLEAN : PlanCommit(ok)
                   \/ AnswerQuestions]_vars

\* ---------------------------------------------------------------------------
\* claims: the planning step
\* ---------------------------------------------------------------------------

\* C23: if plan.md already exists for the task (whatever its content), the
\* planning step returns status skipped, without halt, without invoking the
\* agent and without writing any artifact.
C23_ExistingPlanSkips ==
    (ppc # "idle" /\ existingPlan # NoFile) =>
        /\ ppc = "done"
        /\ pres = Result("skipped", FALSE, "")
        /\ pqueries = 0
        /\ pwritten = {}

\* C24: a call that finds no plan and research questions not marked answered
\* returns {skipped, halt} without invoking the agent and without raising; a call
\* that finds no plan and the research marked answered invokes the agent.
C24_OpenQuestionsHalt ==
    [][(ppc \in {"idle", "done"} /\ (ppc' = "stream" \/ Len(plog') > Len(plog))) =>
          /\ (planFile = NoFile /\ researchFile = "open") =>
                 /\ ppc' = "done"
                 /\ pres' = Result("skipped", TRUE, "")
                 /\ pqueries' = 0
                 /\ pwritten' = {}
          /\ (planFile = NoFile /\ researchFile = "answered") =>
                 /\ ppc' = "stream"
                 /\ pqueries' = 1]_vars

\* C24 witness: the first call halted on the open questions, the questions were
\* answered, and the second call has opened the agent stream.
C24_Witness ==
    /\ plog = <<Result("skipped", TRUE, "")>>
    /\ planFile = NoFile
    /\ researchFile = "answered"
    /\ ppc = "stream"
    /\ pqueries = 1

\* C26: a call of the step that returns (completed, skipped or halted) has made
\* a commit before returning, whenever there was a change under the artifact
\* namespace or the mode is cloud (where the commit may be empty).
C26_CommitAfterEveryOutcome ==
    (ppc = "done" /\ pres.status \in {"completed", "skipped"}
        /\ (planCloud \/ pwritten # {})) => pcommits >= 1

\* The text blocks of the assistant messages of a stream, in stream order, each
\* followed by a newline (blocks: what is left of the message at hand); the
\* empty ones are kept or not.
RECURSIVE AssistantText(_, _, _)
AssistantText(stream, blocks, keepEmpty) ==
    IF blocks # <<>>
    THEN (IF Head(blocks).type = "text" /\ (keepEmpty \/ Head(blocks).text # <<>>)
          THEN Head(blocks).text \o <<"\n">>
          ELSE <<>>) \o AssistantText(stream, Tail(blocks), keepEmpty)
    ELSE IF stream = <<>> THEN <<>>
    ELSE AssistantText(Tail(stream),
                       IF Head(stream).type = "assistant" THEN Head(stream).content
                       ELSE <<>>,
                       keepEmpty)

\* Once the stream completed, writePlan was called (and wrote plan.md unless it
\* rejected) iff the text expected is not blank, with that text trimmed; a stream
\* that raised left plan.md as it was and the step threw.
PlanWrittenAs(expected) ==
    /\ (ppc = "commit" \/ (ppc = "done" /\ pqueries = 1 /\ pres.error # "stream")) =>
          /\ ("plan.md" \in pwritten \/ pres.error = "writePlan") <=> Trim(expected) # <<>>
          /\ "plan.md" \in pwritten => planFile = Trim(expected)
    /\ (ppc = "done" /\ pres.error = "stream") =>
          /\ pres.status = "threw"
          /\ "plan.md" \notin pwritten
          /\ planFile = existingPlan

\* C27 as stated: once the stream completed, plan.md is written iff the text of
\* all the text blocks of the assistant messages, each followed by a newline, is
\* non-blank, and its content is that text trimmed; a stream that raises writes no
\* plan and the step throws.
C27_PlanIsAssistantText == PlanWrittenAs(AssistantText(pstream, <<>>, TRUE))

\* C27 amended: the same with the non-empty text blocks only (an empty text block
\* adds nothing, not even its newline).
C27_PlanIsNonEmptyAssistantText == PlanWrittenAs(AssistantText(pstream, <<>>, FALSE))

\* C27 witness: a stream with an empty text block between two texts completed and
\* plan.md holds the two texts, one line each.
C27_Witness ==
    /\ ppc = "commit"
    /\ AssistantText(pstream, <<>>, TRUE) = <<"a", "\n", "\n", "a", "\n">>
    /\ planFile = <<"a", "\n", "a">>

\* ---------------------------------------------------------------------------
\* StageExecutor.execute and the workflow that calls it
\* ---------------------------------------------------------------------------

\* Stages of a workflow.
MaxStages == 2

\* Workflows of one to MaxStages stages. A stage: is_manual_only as configured (it
\* may be left out), and the type of the agent the registry answers for the
\* stage's agent name ("unknown": none).
Workflows ==
    UNION {[1..n -> [is_manual_only : {"true", "false", "unset"},
                     agent_type : {"unknown", "research", "planning", "execution",
                                   "review"}]] : n \in 1..MaxStages}

\* const isManual = stage.is_manual_only === true
isManual(stage) == stage.is_manual_only = "true"

\* What a call of execute did: whether it opened the agent stream with query(),
\* the results it returned, whether it threw.
StageResult(queried, results, threw) ==
    [queried |-> queried, results |-> results, threw |-> threw]

\* execute without the test of is_manual_only.
execute_IgnoresManual(stage, ok) ==
    IF stage.agent_type = "unknown"
    THEN StageResult(FALSE, <<>>, TRUE)
    ELSE IF stage.agent_type \in {"research", "planning", "execution"}
    THEN (IF ok THEN StageResult(TRUE, <<"output">>, FALSE)
          ELSE StageResult(TRUE, <<>>, TRUE))
    ELSE StageResult(FALSE, <<>>, FALSE)

\* StageExecutor.execute: a manual stage returns { results: [] } at once; an
\* unknown agent throws; research, planning and execution agents run query() (ok:
\* the stream does not raise); other agent types return { results: [] }.
execute(stage, ok) ==
    IF isManual(stage)
    THEN StageResult(FALSE, <<>>, FALSE)
    ELSE IF stage.agent_type = "unknown"
    THEN StageResult(FALSE, <<>>, TRUE)
    ELSE IF stage.agent_type \in {"research", "planning", "execution"}
    THEN (IF ok THEN StageResult(TRUE, <<"output">>, FALSE)
          ELSE StageResult(TRUE, <<>>, TRUE))
    ELSE StageResult(FALSE, <<>>, FALSE)

\* The workflow calls execute on the stage it is at.
ExecuteStage(ok) ==
    /\ wfpc = "run"
    /\ wfLog' = Append(wfLog, execute(wfStages[wfIdx], ok))
    /\ wfpc' = "advance"
    /\ UNCHANGED <<repVars, gitVars, rtVars, todoVars, execVars, planVars, storeVars,
                   finVars, wfStages, wfIdx>>

\* The workflow after a stage: it fails when the stage threw, stops at a manual
\* stage, and otherwise goes on to the next stage or ends.
AdvanceWorkflow ==
    /\ wfpc = "advance"
    /\ IF wfLog[wfIdx].threw
       THEN wfpc' = "failed" /\ UNCHANGED wfIdx
       ELSE IF isManual(wfStages[wfIdx])
       THEN wfpc' = "halted" /\ UNCHANGED wfIdx
       ELSE IF wfIdx < Len(wfStages)
       THEN wfpc' = "run" /\ wfIdx' = wfIdx + 1
       ELSE wfpc' = "done" /\ UNCHANGED wfIdx
    /\ UNCHANGED <<repVars, gitVars, rtVars, todoVars, execVars, planVars, storeVars,
                   finVars, wfStages, wfLog>>

\* Any workflow, about to run its first stage.
InitStage ==
    /\ InitReporter
    /\ InitRunTaskIdle
    /\ InitGitIdle("")
    /\ InitExtIdle("stage")
    /\ wfStages \in Workflows
    /\ wfIdx = 1
    /\ wfpc = "run"

SpecStage ==
    InitStage /\ [][(\E ok \in BOOLEAN : ExecuteStage(ok)) \/ AdvanceWorkflow]_vars

MaxStoreOps == 3

\* Task ids and file names are texts (sequences of characters); a path is the
\* sequence of its segments below the repository.
TaskIds == {<<"t">>, <<"u">>}
FileNames == {<<"p">>, <<".", "c">>, <<".", ".", "/", "u", "/", "p">>}

\* The segments of a text, split at "/".
RECURSIVE Segments(_, _)
Segments(text, seg) ==
    IF text = <<>> THEN <<seg>>
    ELSE IF Head(text) = "/" THEN <<seg>> \o Segments(Tail(text), <<>>)
    ELSE Segments(Tail(text), Append(seg, Head(text)))

\* path.join's normalisation: empty and "." segments go away, ".." takes the
\* segment before it away.
RECURSIVE Normalize(_, _)
Normalize(segs, acc) ==
    IF segs = <<>> THEN acc
    ELSE IF Head(segs) \in {<<>>, <<".">>} THEN Normalize(Tail(segs), acc)
    ELSE IF Head(segs) = <<".", ".">> /\ acc # <<>> /\ acc[Len(acc)] # <<".", ".">>
    THEN Normalize(Tail(segs), SubSeq(acc, 1, Len(acc) - 1))
    ELSE Normalize(Tail(segs), Append(acc, Head(segs)))

\* join(this.repositoryPath, '.posthog', taskId), below the repository.
getTaskDirectory(taskId) == Normalize(Segments(taskId, <<>>), <<<<".posthog">>>>)

\* join(this.getTaskDirectory(taskId), fileName).
getTaskFilePath(taskId, fileName) ==
    Normalize(Segments(fileName, <<>>), getTaskDirectory(taskId))

\* The paths at and above a path, the repository itself left out.
Prefixes(path) == {SubSeq(path, 1, k) : k \in 1..Len(path)}

\* The paths of the files (a file is a path with a content).
FilePaths(files) == {f[1] : f \in files}

\* A directory exists at the path (the repository itself always does).
IsDir(dirs, path) == path = <<>> \/ path \in dirs

\* Some directory on the way to the path is in fact a file.
UnderFile(files, path) ==
    \E k \in 1..(Len(path) - 1) : SubSeq(path, 1, k) \in FilePaths(files)

\* fs.access(path) succeeds.
access(dirs, files, path) == IsDir(dirs, path) \/ path \in FilePaths(files)

\* fs.rm(dir, { recursive: true, force: true }): what is at or below the path.
Below(paths, dir) ==
    {q \in paths : Len(q) >= Len(dir) /\ SubSeq(q, 1, Len(dir)) = dir}

\* ensureTaskDirectory: the directories afterwards (mkdir with recursive makes
\* the directories above too).
ensureTaskDirectory(dirs, files, taskId) ==
    IF access(dirs, files, getTaskDirectory(taskId))
    THEN dirs
    ELSE dirs \cup Prefixes(getTaskDirectory(taskId))

\* The file manager's answers.
Answer(op, threw, content, names) ==
    [op |-> op, threw |-> threw, content |-> content, names |-> names]

\* readTaskFile with no error caught.
readTaskFile_NoCatch(dirs, files, taskId, fileName) ==
    LET path == getTaskFilePath(taskId, fileName) IN
    IF path \in FilePaths(files)
    THEN Answer("read", FALSE, (CHOOSE f \in files : f[1] = path)[2], {})
    ELSE Answer("read", TRUE, NoFile, {})

\* readTaskFile: the content; null for ENOENT; other errors are thrown again.
readTaskFile(dirs, files, taskId, fileName) ==
    LET path == getTaskFilePath(taskId, fileName) IN
    IF path \in FilePaths(files)
    THEN Answer("read", FALSE, (CHOOSE f \in files : f[1] = path)[2], {})
    ELSE IF IsDir(dirs, path) \/ UnderFile(files, path)
    THEN Answer("read", TRUE, NoFile, {})
    ELSE Answer("read", FALSE, NoFile, {})

\* listTaskFiles: the names readdir answers that do not start with '.'; [] for
\* ENOENT; other errors are thrown again.
listTaskFiles(dirs, files, taskId) ==
    LET dir == getTaskDirectory(taskId)
        entries == {r \in dirs \cup FilePaths(files) :
                       Len(r) = Len(dir) + 1 /\ SubSeq(r, 1, Len(dir)) = dir}
    IN IF IsDir(dirs, dir)
       THEN Answer("list", FALSE, "", {n \in {r[Len(r)] : r \in entries} : Head(n) # "."})
       ELSE IF access(dirs, files, dir) \/ UnderFile(files, dir)
       THEN Answer("list", TRUE, "", {})
       ELSE Answer("list", FALSE, "", {})

\* An entry of the log of operations.
StoreOp(op, taskId, fileName, content, answer) ==
    [op |-> op, taskId |-> taskId, fileName |-> fileName, content |-> content,
     threw |-> answer.threw]

\* writeTaskFile(taskId, { name, content }): ensureTaskDirectory, then writeFile.
\* mkdir rejects when a file is in its way; writeFile rejects when the directory
\* of the path does not exist or the path is a directory.
WriteTaskFile(taskId, fileName, content) ==
    /\ Len(slog) < MaxStoreOps
    /\ LET dir == getTaskDirectory(taskId)
           path == getTaskFilePath(taskId, fileName)
           mkdirFails == /\ ~access(fsDirs, fsFiles, dir)
                         /\ \E q \in Prefixes(dir) : q \in FilePaths(fsFiles)
           dirs1 == IF mkdirFails THEN fsDirs
                    ELSE ensureTaskDirectory(fsDirs, fsFiles, taskId)
           fails == \/ mkdirFails
                    \/ path = <<>>
                    \/ ~IsDir(dirs1, SubSeq(path, 1, Len(path) - 1))
                    \/ path \in dirs1
       IN /\ fsDirs' = dirs1
          /\ fsFiles' = IF fails THEN fsFiles
                        ELSE {f \in fsFiles : f[1] # path} \cup {<<path, content>>}
          /\ sres' = Answer("write", fails, "", {})
          /\ slog' = Append(slog, StoreOp("write", taskId, fileName, content, sres'))
    /\ UNCHANGED <<repVars, gitVars, rtVars, todoVars, execVars, planVars, stageVars, finVars>>

\* readTaskFile(taskId, fileName).
ReadTaskFile(taskId, fileName) ==
    /\ Len(slog) < MaxStoreOps
    /\ sres' = readTaskFile(fsDirs, fsFiles, taskId, fileName)
    /\ slog' = Append(slog, StoreOp("read", taskId, fileName, "", sres'))
    /\ UNCHANGED <<repVars, gitVars, rtVars, todoVars, execVars, planVars, stageVars,
                   finVars, fsDirs, fsFiles>>

\* listTaskFiles(taskId).
ListTaskFiles(taskId) ==
    /\ Len(slog) < MaxStoreOps
    /\ sres' = listTaskFiles(fsDirs, fsFiles, taskId)
    /\ slog' = Append(slog, StoreOp("list", taskId, <<>>, "", sres'))
    /\ UNCHANGED <<repVars, gitVars, rtVars, todoVars, execVars, planVars, stageVars,
                   finVars, fsDirs, fsFiles>>

\* cleanupTaskDirectory(taskId): rm -rf of the task directory.
CleanupTaskDirectory(taskId) ==
    /\ Len(slog) < MaxStoreOps
    /\ LET dir == getTaskDirectory(taskId) IN
          /\ fsDirs' = fsDirs \ Below(fsDirs, dir)
          /\ fsFiles' = {f \in fsFiles : f[1] \notin Below(FilePaths(fsFiles), dir)}
    /\ sres' = Answer("deleteAll", FALSE, "", {})
    /\ slog' = Append(slog, StoreOp("deleteAll", taskId, <<>>, "", sres'))
    /\ UNCHANGED <<repVars, gitVars, rtVars, todoVars, execVars, planVars, stageVars, finVars>>

\* An empty repository, no operation called yet; then any operations.
SpecStore ==
    Init /\ [][\/ \E t \in TaskIds, n \in FileNames, c \in {"x", "y"} :
                     WriteTaskFile(t, n, c)
               \/ \E t \in TaskIds, n \in FileNames : ReadTaskFile(t, n)
               \/ \E t \in TaskIds : ListTaskFiles(t)
               \/ \E t \in TaskIds : CleanupTaskDirectory(t)]_vars

\* ---------------------------------------------------------------------------
\* claims: the artifact store
\* ---------------------------------------------------------------------------

\* The content of the most recent write to (taskId, fileName) that succeeded
\* since the last deleteAll(taskId); absent when there is none.
RECURSIVE LastWrite(_, _, _)
LastWrite(log, taskId, fileName) ==
    IF log = <<>> THEN NoFile
    ELSE LET e == log[Len(log)] IN
         IF e.op = "deleteAll" /\ e.taskId = taskId THEN NoFile
         ELSE IF e.op = "write" /\ e.taskId = taskId /\ e.fileName = fileName /\ ~e.threw
         THEN e.content
         ELSE LastWrite(SubSeq(log, 1, Len(log) - 1), taskId, fileName)

\* C29: after any sequence of operations, read(taskId, name) answers the content
\* of the most recent write to that (taskId, name) since the last
\* deleteAll(taskId); a name is held once; and an operation on one task id
\* changes nothing of what is read or listed under another.
C29_LastWriteWins ==
    [][Len(slog') = Len(slog) + 1 =>
          /\ \A t \in TaskIds, n \in FileNames :
                 readTaskFile(fsDirs', fsFiles', t, n)
                     = Answer("read", FALSE, LastWrite(slog', t, n), {})
          /\ \A f \in fsFiles', g \in fsFiles' : f[1] = g[1] => f = g
          /\ \A t \in TaskIds \ {slog'[Len(slog')].taskId} :
                 /\ \A n \in FileNames :
                        readTaskFile(fsDirs', fsFiles', t, n)
                            = readTaskFile(fsDirs, fsFiles, t, n)
                 /\ listTaskFiles(fsDirs', fsFiles', t)
                        = listTaskFiles(fsDirs, fsFiles, t)]_vars

FinalizeTask == <<"t">>

\* collectTaskArtifacts: the listed files that can be read.
collectTaskArtifacts(dirs, files, taskId) ==
    {n \in listTaskFiles(dirs, files, taskId).names :
        LET r == readTaskFile(dirs, files, taskId, n) IN ~r.threw /\ r.content # NoFile}

\* const artifacts = await fileManager.collectTaskArtifacts(task.id)
FinalizeCollect ==
    /\ finpc = "start"
    /\ artifacts' = collectTaskArtifacts(fsDirs, fsFiles, FinalizeTask)
    /\ finpc' = "upload"
    /\ UNCHANGED <<repVars, gitVars, rtVars, todoVars, execVars, planVars, stageVars, slog,
                   sres, fsDirs, fsFiles, finApi, finRunId, uploadedArtifacts, finRemoved,
                   finCommits>>

\* if (artifacts.length && posthogAPI && progressReporter.runId): the upload (ok:
\* uploadTaskArtifacts answers); its failure is logged and nothing more.
FinalizeUpload(ok) ==
    /\ finpc = "upload"
    /\ IF artifacts # {} /\ finApi /\ finRunId
       THEN uploadedArtifacts' = IF ok THEN artifacts ELSE {}
       ELSE ok /\ UNCHANGED uploadedArtifacts
    /\ finpc' = "cleanup"
    /\ UNCHANGED <<repVars, gitVars, rtVars, todoVars, execVars, planVars, stageVars, slog,
                   sres, fsDirs, fsFiles, finApi, finRunId, artifacts, finRemoved,
                   finCommits>>

\* await fileManager.cleanupTaskDirectory(task.id)
FinalizeCleanup ==
    /\ finpc = "cleanup"
    /\ LET dir == getTaskDirectory(FinalizeTask)
           gone == {f \in fsFiles : f[1] \in Below(FilePaths(fsFiles), dir)}
       IN /\ finRemoved' = {f[1][Len(f[1])] : f \in gone}
          /\ fsDirs' = fsDirs \ Below(fsDirs, dir)
          /\ fsFiles' = fsFiles \ gone
    /\ finpc' = "commit"
    /\ UNCHANGED <<repVars, gitVars, rtVars, todoVars, execVars, planVars, stageVars, slog,
                   sres, finApi, finRunId, artifacts, uploadedArtifacts, finCommits>>

\* addAllPostHogFiles, finalizeStepGitActions with allowEmptyCommit, the step's
\* result (ok: the git commands do not reject).
FinalizeCommit(ok) ==
    /\ finpc = "commit"
    /\ IF ok
       THEN /\ finCommits' = finCommits + finalizeStepGitActions(TRUE, finRemoved # {})
            /\ finpc' = "completed"
       ELSE /\ finpc' = "threw"
            /\ UNCHANGED finCommits
    /\ UNCHANGED <<repVars, gitVars, rtVars, todoVars, execVars, planVars, stageVars, slog,
                   sres, fsDirs, fsFiles, finApi, finRunId, artifacts, uploadedArtifacts,
                   finRemoved>>

\* Any task directory (none, empty, or with some of the files p, q and the hidden
\* .c), any context.
InitFinalize ==
    /\ InitReporter
    /\ InitRunTaskIdle
    /\ InitGitIdle("")
    /\ InitExtIdle("finalize")
    /\ \E exists \in BOOLEAN, names \in SUBSET {<<"p">>, <<"q">>, <<".", "c">>} :
          /\ exists \/ names = {}
          /\ fsDirs = IF exists THEN Prefixes(getTaskDirectory(FinalizeTask)) ELSE {}
          /\ fsFiles = {<<getTaskFilePath(FinalizeTask, n), "x">> : n \in names}
    /\ finApi \in BOOLEAN
    /\ finRunId \in BOOLEAN
    /\ finpc = "start"

SpecFinalize ==
    InitFinalize /\ [][\/ FinalizeCollect
                       \/ \E ok \in BOOLEAN : FinalizeUpload(ok)
                       \/ FinalizeCleanup
                       \/ \E ok \in BOOLEAN : FinalizeCommit(ok)]_vars

\* C28: once finalize has removed the task directory, every artifact that was
\* in it has been uploaded.
C28_DeletedOnlyAfterUpload ==
    finpc \in {"commit", "completed", "threw"} =>
        \A n \in finRemoved : Head(n) # "." => n \in uploadedArtifacts

\* ---------------------------------------------------------------------------
\* TodoManager: the todo list parsed from a TodoWrite tool call and persisted
\* ---------------------------------------------------------------------------

\* Items of a TodoWrite payload, content blocks of a message, calls.
MaxTodos == 3
MaxBlocks == 2
MaxTodoCalls == 4

\* A tool input: an object without todos, an object whose todos is no array, or
\* an object with an array of todos.
Input(kind, todos) == [kind |-> kind, todos |-> todos]

\* The TodoWrite payloads. A field of a todo is "" when it is missing or empty
\* (both are falsy); "done" is a status outside the three of TodoItem.
TodoInputs ==
    LET Todos == {[content |-> "a", status |-> s, activeForm |-> f] :
                     s \in {"", "pending", "in_progress", "completed", "done"},
                     f \in {"", "A"}}
                     \cup {[content |-> "", status |-> s, activeForm |-> ""] :
                              s \in {"", "completed"}}
    IN {Input(k, <<>>) : k \in {"noTodos", "notArray"}}
           \cup {Input("array", t) : t \in UNION {[1..n -> Todos] : n \in 0..MaxTodos}}

\* parseTodoWriteInput with calculateMetadata counting as pending whatever is not
\* completed.
parseTodoWriteInput_PendingIsRest(toolInput, now) ==
    LET items == [i \in 1..Len(toolInput.todos) |->
                     LET todo == toolInput.todos[i] IN
                     [content |-> todo.content,
                      status |-> IF todo.status = "" THEN "pending" ELSE todo.status,
                      activeForm |-> IF todo.activeForm # "" THEN todo.activeForm
                                     ELSE todo.content]]
        count(status) == Cardinality({i \in 1..Len(items) : items[i].status = status})
    IN [items |-> items,
        metadata |-> [total |-> Len(items),
                      pending |-> Len(items) - count("completed"),
                      in_progress |-> count("in_progress"),
                      completed |-> count("completed"),
                      last_updated |-> now]]

\* parseTodoWriteInput with calculateMetadata:
\* content: todo.content || '', status: todo.status || 'pending', activeForm:
\* todo.activeForm || todo.content || ''; the counts are those of the items with
\* each status; last_updated is the time of the call.
parseTodoWriteInput(toolInput, now) ==
    LET items == [i \in 1..Len(toolInput.todos) |->
                     LET todo == toolInput.todos[i] IN
                     [content |-> todo.content,
                      status |-> IF todo.status = "" THEN "pending" ELSE todo.status,
                      activeForm |-> IF todo.activeForm # "" THEN todo.activeForm
                                     ELSE todo.content]]
        count(status) == Cardinality({i \in 1..Len(items) : items[i].status = status})
    IN [items |-> items,
        metadata |-> [total |-> Len(items),
                      pending |-> count("pending"),
                      in_progress |-> count("in_progress"),
                      completed |-> count("completed"),
                      last_updated |-> now]]

\* parseTodoWriteInput(toolInput) called on a TodoManager not used yet.
ParseTodoWriteInput(toolInput) ==
    /\ todoCalls = 0
    /\ todoInput' = toolInput
    /\ todoRet' = parseTodoWriteInput(toolInput, todoCalls)
    /\ todoCalls' = todoCalls + 1
    /\ UNCHANGED <<repVars, gitVars, rtVars, planVars, stageVars, storeVars, finVars,
                   execVars, todoFile>>

\* The messages of the agent stream: assistant messages with up to MaxBlocks
\* content blocks (text, a Read tool call, a TodoWrite tool call with one of six
\* payloads, one of them without todos), an assistant message without content, a user message.
TodoMessages ==
    LET Block(type, name, input) == [type |-> type, name |-> name, input |-> input]
        Todo(status) == [content |-> "a", status |-> status, activeForm |-> ""]
        Blocks == {Block("text", "", Input("noTodos", <<>>)),
                   Block("tool_use", "Read", Input("noTodos", <<>>))}
                      \cup {Block("tool_use", "TodoWrite", in) :
                               in \in {Input("noTodos", <<>>), Input("array", <<>>),
                                       Input("array", <<Todo("completed")>>),
                                       Input("array", <<Todo("done")>>),
                                       Input("array", <<Todo(""), Todo("in_progress")>>),
                                       Input("array", <<Todo(""), Todo("completed")>>)}}
        Message(type, hasContent, content) ==
            [type |-> type, hasContent |-> hasContent, content |-> content]
    IN {Message("assistant", TRUE, c) : c \in UNION {[1..n -> Blocks] : n \in 0..MaxBlocks}}
           \cup {Message("assistant", FALSE, <<>>),
                 Message("user", TRUE, <<Block("text", "", Input("noTodos", <<>>))>>)}

\* The content blocks of the message that are TodoWrite tool calls, by index.
todoWrites(message) ==
    {i \in 1..Len(message.content) :
        message.content[i].type = "tool_use" /\ message.content[i].name = "TodoWrite"}

\* checkAndPersistFromMessage(message, taskId): null unless the message is an
\* assistant message with content; the first TodoWrite block is parsed and
\* written to todos.json and the list returned; when writeTodos rejects (~ok)
\* the error is caught and null returned; null when there is no such block.
CheckAndPersistFromMessage(message, ok) ==
    /\ todoCalls < MaxTodoCalls
    /\ todoCalls' = todoCalls + 1
    /\ IF message.type # "assistant" \/ ~message.hasContent \/ todoWrites(message) = {}
       THEN /\ ok
            /\ todoRet' = Null
            /\ UNCHANGED <<todoInput, todoFile>>
       ELSE LET block == message.content[CHOOSE i \in todoWrites(message) :
                                             \A j \in todoWrites(message) : i <= j]
            IN /\ todoInput' = block.input
               /\ todoRet' = IF ok THEN parseTodoWriteInput(block.input, todoCalls)
                             ELSE Null
               /\ todoFile' = IF ok THEN todoRet' ELSE todoFile
    /\ UNCHANGED <<repVars, gitVars, rtVars, planVars, stageVars, storeVars, finVars,
                   execVars>>

\* parseTodoWriteInput on any payload.
SpecTodoParse ==
    Init /\ [][\E toolInput \in TodoInputs : ParseTodoWriteInput(toolInput)]_vars

\* A TodoManager on a task without todos.json, given the messages of a stream.
SpecTodo ==
    Init /\ [][\E message \in TodoMessages, ok \in BOOLEAN :
                   CheckAndPersistFromMessage(message, ok)]_vars

\* ---------------------------------------------------------------------------
\* claims: the todo list
\* ---------------------------------------------------------------------------

\* C31: for every todo-write payload, the list parsed from it has one item
\* for each todo of the payload, total is their number, pending, in_progress and
\* completed are the numbers of todos with that status, a todo without status
\* counting as pending, and an item whose todo has no activeForm takes its
\* content; todos [completed, pending, pending] give total 3, completed 1,
\* pending 2, in_progress 0.
C31_MetadataCountsItems ==
    (todoInput # Null /\ todoRet # Null) =>
        LET todos == todoInput.todos
            with(statuses) ==
                Cardinality({i \in 1..Len(todos) : todos[i].status \in statuses})
            meta == todoRet.metadata
        IN /\ Len(todoRet.items) = Len(todos)
           /\ meta.total = Len(todos)
           /\ meta.pending = with({"", "pending"})
           /\ meta.in_progress = with({"in_progress"})
           /\ meta.completed = with({"completed"})
           /\ \A i \in 1..Len(todos) :
                  todos[i].activeForm = ""
                      => todoRet.items[i].activeForm = todos[i].content
           /\ [i \in 1..Len(todos) |-> todos[i].status]
                  \in {<<"completed", "pending", "pending">>,
                       <<"completed", "", "pending">>}
                  => /\ meta.total = 3
                     /\ meta.completed = 1
                     /\ meta.pending = 2
                     /\ meta.in_progress = 0

\* C31 witness: todos [completed, none, pending], the second without activeForm
\* of its own, parsed into three items counted 3, 1, 2, 0.
C31_Witness ==
    /\ todoCalls = 1
    /\ todoInput = Input("array",
                         <<[content |-> "a", status |-> "completed", activeForm |-> "A"],
                           [content |-> "a", status |-> "", activeForm |-> ""],
                           [content |-> "a", status |-> "pending", activeForm |-> "A"]>>)
    /\ todoRet.items =
           <<[content |-> "a", status |-> "completed", activeForm |-> "A"],
             [content |-> "a", status |-> "pending", activeForm |-> "a"],
             [content |-> "a", status |-> "pending", activeForm |-> "A"]>>
    /\ todoRet.metadata = [total |-> 3, pending |-> 2, in_progress |-> 0,
                           completed |-> 1, last_updated |-> 0]

\* C32: every TodoList the TodoManager produces is consistent with its items:
\* total = pending + in_progress + completed and every item's status is
\* pending, in_progress or completed.
C32_ListIsConsistent ==
    \A list \in {todoRet, todoFile} \ {Null} :
        /\ list.metadata.total = list.metadata.pending + list.metadata.in_progress
                                     + list.metadata.completed
        /\ \A i \in 1..Len(list.items) :
               list.items[i].status \in {"pending", "in_progress", "completed"}

\* C33: after a message handled with the store working, todos.json holds the
\* parse of the payload of the last TodoWrite tool call of the message, alone;
\* a message without such a call, or one that is no assistant message, leaves
\* todos.json as it was and null is returned.
C33_LastCallStored ==
    [][\A message \in TodoMessages :
          CheckAndPersistFromMessage(message, TRUE) =>
              LET calls == IF message.type = "assistant" /\ message.hasContent
                           THEN todoWrites(message) ELSE {}
                  last == message.content[CHOOSE i \in calls : \A j \in calls : j <= i]
              IN IF calls = {}
                 THEN todoFile' = todoFile /\ todoRet' = Null
                 ELSE todoFile' = parseTodoWriteInput(last.input, todoCalls)]_vars

\* ---------------------------------------------------------------------------
\* TaskManager: one execution, and one waitForCompletion on it
\* ---------------------------------------------------------------------------

\* Calls of startExecution, completeExecution, failExecution and cancelExecution.
MaxExecOps == 4

\* startExecution(taskId, mode, executionId), the first call made: the state is
\* stored with status running, no result and a new AbortController, and the
\* timeout is scheduled.
StartExecution ==
    /\ execStatus = "none"
    /\ execOps = 0
    /\ execOps' = 1
    /\ execStatus' = "running"
    /\ execResult' = "undefined"
    /\ execAborted' = FALSE
    /\ execTimer' = TRUE
    /\ UNCHANGED <<repVars, rtVars, gitVars, planVars, stageVars, storeVars, finVars,
                   todoVars, waitpc, waitRes>>

\* completeExecution(executionId, result), on an execution that is stored.
CompleteExecution(result) ==
    /\ execStatus # "none"
    /\ execOps < MaxExecOps
    /\ execOps' = execOps + 1
    /\ execStatus' = "completed"
    /\ execResult' = result
    /\ UNCHANGED <<repVars, rtVars, gitVars, planVars, stageVars, storeVars, finVars,
                   todoVars, execAborted, execTimer, waitpc, waitRes>>

\* failExecution(executionId, error).
FailExecution ==
    /\ execStatus # "none"
    /\ execOps < MaxExecOps
    /\ execOps' = execOps + 1
    /\ execStatus' = "failed"
    /\ execResult' = "{error}"
    /\ UNCHANGED <<repVars, rtVars, gitVars, planVars, stageVars, storeVars, finVars,
                   todoVars, execAborted, execTimer, waitpc, waitRes>>

\* cancelExecution(executionId): the result is set when there is none, or a
\* falsy one.
CancelExecution ==
    /\ execStatus # "none"
    /\ execOps < MaxExecOps
    /\ execOps' = execOps + 1
    /\ execStatus' = "canceled"
    /\ execAborted' = TRUE
    /\ execResult' = IF execResult \in {"undefined", "''"} THEN "{canceled}" ELSE execResult
    /\ UNCHANGED <<repVars, rtVars, gitVars, planVars, stageVars, storeVars, finVars,
                   todoVars, execTimer, waitpc, waitRes>>

\* The callback of scheduleTimeout: it changes an execution that is stored and
\* still running, and nothing otherwise.
TimeoutFires ==
    /\ execTimer
    /\ execTimer' = FALSE
    /\ IF execStatus = "running"
       THEN /\ execStatus' = "timeout"
            /\ execAborted' = TRUE
            /\ execResult' = IF execResult \in {"undefined", "''"} THEN "{timeout}"
                             ELSE execResult
       ELSE UNCHANGED <<execStatus, execAborted, execResult>>
    /\ UNCHANGED <<repVars, rtVars, gitVars, planVars, stageVars, storeVars, finVars,
                   todoVars, execOps, waitpc, waitRes>>

\* cleanup(olderThan): an execution that ended long enough ago is deleted.
Cleanup ==
    /\ execStatus \in {"completed", "failed", "canceled", "timeout"}
    /\ execStatus' = "none"
    /\ execResult' = "undefined"
    /\ UNCHANGED <<repVars, rtVars, gitVars, planVars, stageVars, storeVars, finVars,
                   todoVars, execAborted, execTimer, execOps, waitpc, waitRes>>

\* waitForCompletion(executionId) up to the promise it returns: it throws for an
\* execution that is not stored, returns a truthy result of a completed one, and
\* otherwise starts the interval.
WaitForCompletion ==
    /\ waitpc = "idle"
    /\ IF execStatus = "none"
       THEN waitpc' = "rejected" /\ waitRes' = "not found"
       ELSE IF execResult \notin {"undefined", "''"} /\ execStatus = "completed"
       THEN waitpc' = "resolved" /\ waitRes' = execResult
       ELSE waitpc' = "polling" /\ UNCHANGED waitRes
    /\ UNCHANGED <<repVars, rtVars, gitVars, planVars, stageVars, storeVars, finVars,
                   todoVars, execStatus, execResult, execAborted, execTimer, execOps>>

\* The callback of the interval, every 100 ms: it settles the promise and clears
\* the interval, or leaves both as they are.
Poll ==
    /\ waitpc = "polling"
    /\ IF execStatus = "none"
       THEN waitpc' = "rejected" /\ waitRes' = "disappeared"
       ELSE IF execStatus = "completed" /\ execResult \notin {"undefined", "''"}
       THEN waitpc' = "resolved" /\ waitRes' = execResult
       ELSE IF execStatus \in {"failed", "canceled", "timeout"}
       THEN waitpc' = "rejected" /\ waitRes' = execStatus
       ELSE UNCHANGED <<waitpc, waitRes>>
    /\ UNCHANGED <<repVars, rtVars, gitVars, planVars, stageVars, storeVars, finVars,
                   todoVars, execStatus, execResult, execAborted, execTimer, execOps>>

\* The interval keeps calling its callback until it is cleared.
SpecExec ==
    /\ Init
    /\ [][\/ StartExecution
          \/ \E result \in {"undefined", "''", "report"} : CompleteExecution(result)
          \/ FailExecution
          \/ CancelExecution
          \/ TimeoutFires
          \/ Cleanup
          \/ WaitForCompletion
          \/ Poll]_vars
    /\ WF_vars(Poll)

\* ---------------------------------------------------------------------------
\* claims: the execution tracker
\* ---------------------------------------------------------------------------

\* C39: once the status of an execution is completed, failed, canceled or
\* timeout, no step that leaves the execution stored changes its status or its
\* result; the timeout changes only an execution that is running; and a step
\* that makes the status canceled or timeout aborts the abort signal.
C39_TerminalAbsorbing ==
    [][/\ (execStatus \in {"completed", "failed", "canceled", "timeout"}
              /\ execStatus' # "none") =>
              (execStatus' = execStatus /\ execResult' = execResult)
       /\ (execStatus' = "timeout" /\ execStatus # "timeout") => execStatus = "running"
       /\ (execStatus' \in {"canceled", "timeout"} /\ execStatus' # execStatus) =>
              execAborted']_vars

\* C40: a waitForCompletion that polls an execution whose status is completed,
\* failed, canceled or timeout eventually settles; it never resolves but with the
\* result of a completed execution, nor rejects one that completed.
C40_WaitSettles ==
    /\ [](waitpc = "resolved" => waitRes \notin {"not found", "disappeared"})
    /\ (waitpc = "polling" /\ execStatus \in {"completed", "failed", "canceled", "timeout"})
           ~> (waitpc \in {"resolved", "rejected"})
====
